---------------------------- MODULE Spec2Model ----------------------------
(***************************************************************************)
(* BoomGhoom: the finance entities (the withdrawal breakdown and the       *)
(* business constants), the zustand stores and the wallet screen.          *)
(*                                                                         *)
(* Amounts are fixed-point numbers: an amount of r rupees is the integer   *)
(* r * Scale, so that 2% of a whole-rupee amount and 18% of that fee are   *)
(* exact integers.  The source computes in IEEE-754 doubles; the rounding  *)
(* of doubles is not part of this model.                                   *)
(***************************************************************************)
EXTENDS Integers, Sequences, FiniteSets, TLC

VARIABLES
    financeStore,       \* useFinanceStore: summary, transactions, dues, ...
    authStore,          \* useAuthStore: user, isAuthenticated, ...
    eventStore,         \* useEventStore
    notificationStore,  \* useNotificationStore
    prevCall,           \* the call of calculateWithdrawalBreakdown before
    lastCall,           \*   the last one, and the last one
    lastDuesChange,     \* what the last setDues call did to the dues
    walletScreen,       \* the WalletScreen component and its wallet data
    app,                \* App: currentScreen, phoneNumber, selected ids
    screens,            \* the useState of the screen that App renders
    timers,             \* the pending setTimeout callbacks, oldest first
    started,            \* the simulated API calls started so far
    lastCallback,       \* the last prop a timer's callback called
    otpScreen,          \* OTPScreen on its own: its useState, cell by cell
    otpTimers,          \*   the codes of its pending verifications
    otpCalled,          \*   the props its last handler called
    formData            \* CreateEventScreen on its own: its form

\* The two components that are also modelled on their own.
componentVars == <<otpScreen, otpTimers, otpCalled, formData>>

appVars == <<app, screens, timers, started, lastCallback, componentVars>>

vars == <<financeStore, authStore, eventStore, notificationStore,
          prevCall, lastCall, lastDuesChange, walletScreen, appVars>>

stores == <<financeStore, authStore, eventStore, notificationStore>>

\* JavaScript's null: in a field that holds a string, and in a field that
\* holds an object (TLC compares a record only with a record).
Null == "null"
NullObject == [isNull |-> TRUE]

-----------------------------------------------------------------------------
(* Bounds of the model.                                                    *)

\* Whole-rupee gross amounts -MaxNegGross .. MaxGross are passed to the
\* breakdown function, besides the amounts the source and the spec name.
MaxNegGross == 3
MaxGross == 8
\* A commission record counts up to MaxParticipants participants.
MaxParticipants == 2
\* The participants of the one event of which SpecCommission follows the
\* dues and the commission record.
MaxEventParticipants == 3
\* The largest dues array given to setDues.
MaxDues == 1
\* The largest withdrawals array given to setWithdrawals.
MaxWithdrawals == 2
\* Refresh timers of the wallet screen that may be pending at once.
MaxPendingRefresh == 2
\* The simulated API calls (login, signup, verify, submit, join) that a
\* behaviour of the App starts.
MaxCalls == 3
MaxFairCalls == 2
\* The seconds the OTP screen's resend countdown starts from (30 in the
\* source: the model counts a shorter countdown, tick by tick).
MaxResendSeconds == 2
MaxNotifications == 3
MaxOtpVerifies == 1
MaxRules == 2

-----------------------------------------------------------------------------
(* Finance entities: constants and calculateWithdrawalBreakdown.           *)

\* One rupee, in the model's fixed-point unit (1/10000 rupee).
Scale == 100 * 100

Rupees(r) == r * Scale

DUE_AMOUNT == 25
MIN_WITHDRAWAL_AMOUNT == 1000
\* 0.8, 0.02 and 0.18, in hundredths.
COMMISSION_RATE == 80
GATEWAY_FEE_PERCENTAGE == 2
GST_PERCENTAGE == 18

\* amount * (hundredths / 100); exact on every amount the model computes
\* (a whole-rupee gross amount and its fee).
Times(amount, hundredths) == (amount * hundredths) \div 100

\* Mutants of calculateWithdrawalBreakdown.
calculateWithdrawalBreakdown_gstOnGross(grossAmount) ==
    LET gatewayFee == Times(grossAmount, GATEWAY_FEE_PERCENTAGE)
        gst == Times(grossAmount, GST_PERCENTAGE)
        netAmount == grossAmount - gatewayFee - gst
    IN  [gatewayFee |-> gatewayFee, gst |-> gst, netAmount |-> netAmount]

calculateWithdrawalBreakdown_gstNotDeducted(grossAmount) ==
    LET gatewayFee == Times(grossAmount, GATEWAY_FEE_PERCENTAGE)
        gst == Times(gatewayFee, GST_PERCENTAGE)
        netAmount == grossAmount - gatewayFee
    IN  [gatewayFee |-> gatewayFee, gst |-> gst, netAmount |-> netAmount]

calculateWithdrawalBreakdown_feeAdded(grossAmount) ==
    LET gatewayFee == Times(grossAmount, GATEWAY_FEE_PERCENTAGE)
        gst == Times(gatewayFee, GST_PERCENTAGE)
        netAmount == grossAmount + gatewayFee - gst
    IN  [gatewayFee |-> gatewayFee, gst |-> gst, netAmount |-> netAmount]

calculateWithdrawalBreakdown_feeWaiverStep(grossAmount) ==
    LET gatewayFee == IF grossAmount < Rupees(MIN_WITHDRAWAL_AMOUNT)
                      THEN 0
                      ELSE Times(grossAmount, GATEWAY_FEE_PERCENTAGE)
        gst == Times(gatewayFee, GST_PERCENTAGE)
        netAmount == grossAmount - gatewayFee - gst
    IN  [gatewayFee |-> gatewayFee, gst |-> gst, netAmount |-> netAmount]

calculateWithdrawalBreakdown_readsSummary(grossAmount) ==
    LET rate == IF financeStore.summary = NullObject
                THEN GATEWAY_FEE_PERCENTAGE
                ELSE financeStore.summary.gatewayFeePercentage
        gatewayFee == Times(grossAmount, rate)
        gst == Times(gatewayFee, GST_PERCENTAGE)
        netAmount == grossAmount - gatewayFee - gst
    IN  [gatewayFee |-> gatewayFee, gst |-> gst, netAmount |-> netAmount]

calculateWithdrawalBreakdown(grossAmount) ==
    LET gatewayFee == Times(grossAmount, GATEWAY_FEE_PERCENTAGE)
        gst == Times(gatewayFee, GST_PERCENTAGE)
        netAmount == grossAmount - gatewayFee - gst
    IN  [gatewayFee |-> gatewayFee, gst |-> gst, netAmount |-> netAmount]

\* How a call of the function completes: it returns its record or throws.
\* The source has no throw statement and no guard.
NoValue == [gatewayFee |-> 0, gst |-> 0, netAmount |-> 0]

callBreakdown_rejecting(grossAmount) ==
    IF grossAmount <= 0
    THEN [threw |-> TRUE, value |-> NoValue]
    ELSE [threw |-> FALSE, value |-> calculateWithdrawalBreakdown(grossAmount)]

callBreakdown(grossAmount) ==
    [threw |-> FALSE, value |-> calculateWithdrawalBreakdown(grossAmount)]

-----------------------------------------------------------------------------
(* The stores' initial states.                                             *)

financeInitialState ==
    [summary |-> NullObject, transactions |-> <<>>, dues |-> <<>>,
     commissions |-> <<>>, withdrawals |-> <<>>,
     isLoading |-> FALSE, error |-> Null]

authInitialState ==
    [user |-> NullObject, isAuthenticated |-> FALSE, isLoading |-> FALSE,
     isOnboardingComplete |-> FALSE, token |-> Null]

eventInitialState ==
    [events |-> <<>>, featuredEvents |-> <<>>, nearbyEvents |-> <<>>,
     userEvents |-> <<>>, selectedEvent |-> NullObject, filters |-> <<>>,
     isLoading |-> FALSE, error |-> Null]

notificationInitialState ==
    [notifications |-> <<>>, unreadCount |-> 0,
     isLoading |-> FALSE, error |-> Null]

storesInitial ==
    <<financeInitialState, authInitialState, eventInitialState,
      notificationInitialState>>

NoCall == [called |-> FALSE]
NoDuesChange == [change |-> "none", commission |-> "none"]

\* WalletScreen's mock wallet data.
MockWallet ==
    [availableBalance |-> Rupees(3500), pendingCommission |-> Rupees(1250),
     dues |-> 0, totalEarned |-> Rupees(15000),
     minWithdrawal |-> Rupees(1000)]

\* The WalletScreen over wallet data `wallet`, before it is first rendered.
\* onWithdrawCalled and onClearDuesCalled tell whether the screen has
\* called the two props.
WalletScreenOver(wallet) ==
    [mounted |-> FALSE, wallet |-> wallet, refreshing |-> FALSE,
     selectedTab |-> "all", pendingRefresh |-> 0,
     onWithdrawCalled |-> FALSE, onClearDuesCalled |-> FALSE]

\* App's useState, and the useState of each screen when it is mounted.
AppInitial ==
    [currentScreen |-> "splash", phoneNumber |-> "",
     selectedEventId |-> Null, selectedChatId |-> Null]

RESEND_SECONDS == MaxResendSeconds
\* steps.length - 1
LAST_STEP == 3

ScreensInitial ==
    [login |-> [isLoading |-> FALSE, hasErrors |-> FALSE],
     signup |-> [isLoading |-> FALSE, hasErrors |-> FALSE],
     otp |-> [otp |-> "", isLoading |-> FALSE, error |-> "",
              resendTimer |-> RESEND_SECONDS],
     createEvent |-> [currentStep |-> 0, isSubmitting |-> FALSE],
     eventDetail |-> [isJoining |-> FALSE]]

\* The delays of the setTimeout calls, in milliseconds.
SPLASH_DELAY == 2500
RESEND_TICK_DELAY == 1000
API_DELAY == 1500
SUBMIT_DELAY == 2000

\* A pending timer: the callback's kind, what its closure holds (arg),
\* whether the component that set it is unmounted (stale), and the number
\* of the simulated API call it ends (0 for the other timers).
Timer(kind, delay, arg, id) ==
    [kind |-> kind, delay |-> delay, arg |-> arg, stale |-> FALSE, id |-> id]

SplashTimer == Timer("splash", SPLASH_DELAY, "", 0)

NoCallback == [name |-> "none", arg |-> "", id |-> 0]

WalletBalances == {0, 999, MIN_WITHDRAWAL_AMOUNT, 1001, 3500}
WalletDues == {0, DUE_AMOUNT}

OTP_LENGTH == 6
RESEND_FROM == 30

\* A string is the sequence of its characters; '' is <<>>.
Repeat(c, n) == [i \in 1..n |-> c]

\* OTPScreen's useState: otp, activeIndex, isLoading, error, resendTimer.
OtpScreenInitial ==
    [otp |-> [i \in 0..(OTP_LENGTH - 1) |-> <<>>],
     activeIndex |-> 0, isLoading |-> FALSE, error |-> "",
     resendTimer |-> RESEND_FROM]

Genders == {"male", "female", "other"}

\* CreateEventScreen's formData, cut to the fields the form toggles.
FormDataInitial ==
    [genderAllowed |-> <<"male", "female", "other">>,
     requiresApproval |-> TRUE, rules |-> <<>>]

ComponentsInitial ==
    /\ otpScreen = OtpScreenInitial
    /\ otpTimers = <<>>
    /\ otpCalled = <<>>
    /\ formData = FormDataInitial

Init ==
    /\ ComponentsInitial
    /\ app = AppInitial
    /\ screens = ScreensInitial
    /\ timers = <<SplashTimer>>
    /\ started = 0
    /\ lastCallback = NoCallback
    /\ financeStore = financeInitialState
    /\ authStore = authInitialState
    /\ eventStore = eventInitialState
    /\ notificationStore = notificationInitialState
    /\ prevCall = NoCall
    /\ lastCall = NoCall
    /\ lastDuesChange = NoDuesChange
    /\ walletScreen = WalletScreenOver(MockWallet)

InitWallet ==
    /\ ComponentsInitial
    /\ financeStore = financeInitialState
    /\ authStore = authInitialState
    /\ eventStore = eventInitialState
    /\ notificationStore = notificationInitialState
    /\ prevCall = NoCall
    /\ lastCall = NoCall
    /\ lastDuesChange = NoDuesChange
    /\ \E b \in WalletBalances, d \in WalletDues :
          walletScreen =
              WalletScreenOver([MockWallet EXCEPT !.availableBalance = Rupees(b),
                                                  !.dues = Rupees(d)])
    /\ app = AppInitial
    /\ screens = ScreensInitial
    /\ timers = <<SplashTimer>>
    /\ started = 0
    /\ lastCallback = NoCallback

-----------------------------------------------------------------------------
(* Calls of calculateWithdrawalBreakdown.  The function is exported and    *)
(* takes any number; nothing in the repository calls it, so the model      *)
(* calls it with every amount of GrossInputs, in every state of the        *)
(* stores, and remembers the last two calls.                               *)

\* Amounts the source and the spec name: the spec's 999, the minimum
\* withdrawal, the mock withdrawal of 2000, the mock balance of 3500.
NamedAmounts == {999, MIN_WITHDRAWAL_AMOUNT, 2000, 3500}

GrossInputs == {Rupees(r) : r \in ((0 - MaxNegGross) .. MaxGross) \cup NamedAmounts}

Calculate(grossAmount) ==
    LET done == callBreakdown(grossAmount)
    IN  /\ lastCall' = [called |-> TRUE, grossAmount |-> grossAmount,
                        threw |-> done.threw, value |-> done.value,
                        storesWereInitial |-> (stores = storesInitial)]
        /\ prevCall' = lastCall
        /\ UNCHANGED <<financeStore, authStore, eventStore,
                       notificationStore, lastDuesChange, walletScreen, appVars>>

-----------------------------------------------------------------------------
(* useFinanceStore: every action is set({field}); reset is                 *)
(* set(initialState).                                                      *)

\* A store that derives canWithdraw from the amounts of the summary.
setSummary_derivesCanWithdraw(state, summary) ==
    [state EXCEPT !.summary =
        [summary EXCEPT !.canWithdraw =
            (summary.availableCommission >= summary.minWithdrawalAmount)]]

\* set({ summary })
setSummary(state, summary) == [state EXCEPT !.summary = summary]

Finance_setSummary(summary) ==
    /\ financeStore' = setSummary(financeStore, summary)
    /\ UNCHANGED <<authStore, eventStore, notificationStore,
                   prevCall, lastCall, lastDuesChange, walletScreen, appVars>>

\* set({ transactions })
setTransactions(state, transactions) ==
    [state EXCEPT !.transactions = transactions]

Finance_setTransactions(transactions) ==
    /\ financeStore' = setTransactions(financeStore, transactions)
    /\ UNCHANGED <<authStore, eventStore, notificationStore,
                   prevCall, lastCall, lastDuesChange, walletScreen, appVars>>

\* Mutants of setDues: a store that counts the cleared dues of an event
\* into its commission record, and one that releases the commission of an
\* event once the dues given for it are all cleared.
setDues_countsCleared(state, dues) ==
    [state EXCEPT
       !.dues = dues,
       !.commissions =
           [j \in DOMAIN state.commissions |->
              LET c == state.commissions[j]
                  n == Cardinality({i \in DOMAIN dues :
                           /\ dues[i].eventId = c.eventId
                           /\ dues[i].status = "cleared"})
              IN  [c EXCEPT !.participantsDuesCleared = @ + n]]]

setDues_releasesCommission(state, dues) ==
    [state EXCEPT
       !.dues = dues,
       !.commissions =
           [j \in DOMAIN state.commissions |->
              LET c == state.commissions[j]
              IN  IF \E i \in DOMAIN dues : dues[i].status = "cleared"
                  THEN [c EXCEPT !.status = "available"]
                  ELSE c]]

\* A store that recomputes the commission record of an event from the dues
\* it is given: the count of cleared dues, the gross amount, the status.
setDues_recomputesCommission(state, dues) ==
    [state EXCEPT
       !.dues = dues,
       !.commissions =
           [j \in DOMAIN state.commissions |->
              LET c == state.commissions[j]
                  n == Cardinality({i \in DOMAIN dues :
                           /\ dues[i].eventId = c.eventId
                           /\ dues[i].status = "cleared"})
              IN  [c EXCEPT !.participantsDuesCleared = n,
                            !.grossAmount = n * Rupees(DUE_AMOUNT),
                            !.status = IF n = c.totalParticipants /\ @ = "pending"
                                       THEN "available" ELSE @]]]

\* set({ dues })
setDues(state, dues) == [state EXCEPT !.dues = dues]

\* The dues (by id) that `dues` holds cleared and the store held cleared
\* already, and those the store held pending.
ReClearedIds(old, dues) ==
    {old[i].id : i \in {k \in DOMAIN old :
        /\ old[k].status = "cleared"
        /\ \E j \in DOMAIN dues :
              dues[j].id = old[k].id /\ dues[j].status = "cleared"}}

NewlyClearedIds(old, dues) ==
    {old[i].id : i \in {k \in DOMAIN old :
        /\ old[k].status = "pending"
        /\ \E j \in DOMAIN dues :
              dues[j].id = old[k].id /\ dues[j].status = "cleared"}}

\* What a call setDues(dues) does, for lastDuesChange: whether it clears a
\* pending due or clears a cleared due again, and whether the store then
\* holds a commission record of that due's event, of another event, or none.
DuesChange(state, dues) ==
    LET re == ReClearedIds(state.dues, dues)
        cl == NewlyClearedIds(state.dues, dues)
        ids == IF re # {} THEN re ELSE cl
        events == {dues[j].eventId : j \in {k \in DOMAIN dues : dues[k].id \in ids}}
    IN  [change |-> IF re # {} THEN "reclear"
                    ELSE IF cl # {} THEN "clear" ELSE "other",
         commission |->
            IF ids = {} \/ state.commissions = <<>> THEN "none"
            ELSE IF \E j \in DOMAIN state.commissions :
                       state.commissions[j].eventId \in events
                 THEN "same" ELSE "other"]

Finance_setDues(dues) ==
    /\ financeStore' = setDues(financeStore, dues)
    /\ lastDuesChange' = DuesChange(financeStore, dues)
    /\ UNCHANGED <<authStore, eventStore, notificationStore,
                   prevCall, lastCall, walletScreen, appVars>>

\* A store that, given the commission records, reopens the dues of the
\* events whose record is 'pending'.
setCommissions_reopensDues(state, commissions) ==
    [state EXCEPT
       !.commissions = commissions,
       !.dues =
           [i \in DOMAIN state.dues |->
              IF \E j \in DOMAIN commissions :
                    /\ commissions[j].eventId = state.dues[i].eventId
                    /\ commissions[j].status = "pending"
              THEN [state.dues[i] EXCEPT !.status = "pending", !.clearedVia = Null]
              ELSE state.dues[i]]]

\* set({ commissions })
setCommissions(state, commissions) ==
    [state EXCEPT !.commissions = commissions]

Finance_setCommissions(commissions) ==
    /\ financeStore' = setCommissions(financeStore, commissions)
    /\ UNCHANGED <<authStore, eventStore, notificationStore,
                   prevCall, lastCall, lastDuesChange, walletScreen, appVars>>

\* set({ withdrawals })
setWithdrawals(state, withdrawals) ==
    [state EXCEPT !.withdrawals = withdrawals]

Finance_setWithdrawals(withdrawals) ==
    /\ financeStore' = setWithdrawals(financeStore, withdrawals)
    /\ UNCHANGED <<authStore, eventStore, notificationStore,
                   prevCall, lastCall, lastDuesChange, walletScreen, appVars>>

\* A store whose setLoading(true) also clears the error.
setLoading_clearsError(state, isLoading) ==
    [state EXCEPT !.isLoading = isLoading,
                  !.error = IF isLoading THEN Null ELSE @]

\* set({ isLoading })
setLoading(state, isLoading) == [state EXCEPT !.isLoading = isLoading]

Finance_setLoading(isLoading) ==
    /\ financeStore' = setLoading(financeStore, isLoading)
    /\ UNCHANGED <<authStore, eventStore, notificationStore,
                   prevCall, lastCall, lastDuesChange, walletScreen, appVars>>

\* A store that marks the withdrawals in flight 'failed' on an error.
setError_failsWithdrawals(state, error) ==
    [state EXCEPT
       !.error = error,
       !.withdrawals =
           [i \in DOMAIN state.withdrawals |->
              IF error # Null /\ state.withdrawals[i].status \in {"pending", "processing"}
              THEN [state.withdrawals[i] EXCEPT !.status = "failed"]
              ELSE state.withdrawals[i]]]

\* set({ error })
setError(state, error) == [state EXCEPT !.error = error]

Finance_setError(error) ==
    /\ financeStore' = setError(financeStore, error)
    /\ UNCHANGED <<authStore, eventStore, notificationStore,
                   prevCall, lastCall, lastDuesChange, walletScreen, appVars>>

\* set(initialState): the fields of initialState are merged into the state.
reset(state) ==
    [state EXCEPT !.summary = financeInitialState.summary,
                  !.transactions = financeInitialState.transactions,
                  !.dues = financeInitialState.dues,
                  !.commissions = financeInitialState.commissions,
                  !.withdrawals = financeInitialState.withdrawals,
                  !.isLoading = financeInitialState.isLoading,
                  !.error = financeInitialState.error]

Finance_reset ==
    /\ financeStore' = reset(financeStore)
    /\ UNCHANGED <<authStore, eventStore, notificationStore,
                   prevCall, lastCall, lastDuesChange, walletScreen, appVars>>

-----------------------------------------------------------------------------
(* The other stores, as far as the ledger's claims need them.              *)

\* set({ user, isAuthenticated: !!user })
setUser(state, user) ==
    [state EXCEPT !.user = user, !.isAuthenticated = (user # NullObject)]

Auth_setUser(user) ==
    /\ authStore' = setUser(authStore, user)
    /\ UNCHANGED <<financeStore, eventStore, notificationStore,
                   prevCall, lastCall, lastDuesChange, walletScreen, appVars>>

Event_setLoading(isLoading) ==
    /\ eventStore' = [eventStore EXCEPT !.isLoading = isLoading]
    /\ UNCHANGED <<financeStore, authStore, notificationStore,
                   prevCall, lastCall, lastDuesChange, walletScreen, appVars>>

Notification_setLoading(isLoading) ==
    /\ notificationStore' = [notificationStore EXCEPT !.isLoading = isLoading]
    /\ UNCHANGED <<financeStore, authStore, eventStore,
                   prevCall, lastCall, lastDuesChange, walletScreen, appVars>>

-----------------------------------------------------------------------------
(* Values given to the stores' setters.                                    *)

Summary(available, canWithdraw, feeHundredths) ==
    [totalDues |-> 0, pendingCommission |-> 0,
     availableCommission |-> Rupees(available),
     minWithdrawalAmount |-> Rupees(MIN_WITHDRAWAL_AMOUNT),
     gatewayFeePercentage |-> feeHundredths,
     gstPercentage |-> GST_PERCENTAGE,
     canWithdraw |-> canWithdraw, currency |-> "INR"]

\* A summary as the constants give it, and one of a server that charges 3%.
Summaries ==
    {Summary(MIN_WITHDRAWAL_AMOUNT, TRUE, GATEWAY_FEE_PERCENTAGE),
     Summary(MIN_WITHDRAWAL_AMOUNT, TRUE, GATEWAY_FEE_PERCENTAGE + 1)}

\* App.handleCitySelected's mock user, cut to the fields the model reads.
MockUser == [id |-> "1", kyc |-> [status |-> "not_started"]]

EventIds == {"e1", "e2"}
DueStatuses == {<<"pending", Null>>, <<"cleared", "payment">>,
                <<"cleared", "commission">>}

\* The i-th due of a dues array: dues of odd position are of event e1, the
\* others of event e2; st is its status and its clearedVia.
Due(i, st) ==
    [id |-> "d" \o ToString(i),
     eventId |-> IF i % 2 = 1 THEN "e1" ELSE "e2",
     amount |-> Rupees(DUE_AMOUNT), currency |-> "INR",
     status |-> st[1], clearedVia |-> st[2]]

DueArrays ==
    {<<>>} \cup
    UNION {{[i \in 1..n |-> Due(i, f[i])] : f \in [1..n -> DueStatuses]} :
             n \in 1..MaxDues}

CommissionRecords ==
    {[id |-> "c1", eventId |-> e, status |-> st,
      participantsDuesCleared |-> k, totalParticipants |-> MaxParticipants] :
        e \in EventIds, st \in {"pending", "available", "withdrawn"},
        k \in 0..MaxParticipants}

CommissionArrays == {<<>>} \cup {<<c>> : c \in CommissionRecords}

\* MOCK_TRANSACTIONS' withdrawal of 2000.
MockWithdrawalTransaction ==
    [id |-> "4", type |-> "withdrawal_completed", status |-> "completed",
     amount |-> Rupees(2000), currency |-> "INR",
     gatewayFee |-> Rupees(40), gst |-> Rupees(72) \div 10,
     netAmount |-> Rupees(19528) \div 10]

TransactionArrays == {<<>>, <<MockWithdrawalTransaction>>}

Withdrawal(amount, status) ==
    LET b == calculateWithdrawalBreakdown(amount)
    IN  [id |-> "w1", amount |-> amount, currency |-> "INR",
         gatewayFee |-> b.gatewayFee, gst |-> b.gst,
         netAmount |-> b.netAmount, status |-> status]

WithdrawalArrays ==
    {<<>>, <<Withdrawal(Rupees(MIN_WITHDRAWAL_AMOUNT), "pending")>>}

Errors == {Null, "Failed to load"}

-----------------------------------------------------------------------------
(* The finance store under every one of its actions.                       *)

NextFinance ==
    \/ \E s \in Summaries : Finance_setSummary(s)
    \/ \E t \in TransactionArrays : Finance_setTransactions(t)
    \/ \E d \in DueArrays : Finance_setDues(d)
    \/ \E c \in CommissionArrays : Finance_setCommissions(c)
    \/ \E w \in WithdrawalArrays : Finance_setWithdrawals(w)
    \/ \E b \in BOOLEAN : Finance_setLoading(b)
    \/ \E e \in Errors : Finance_setError(e)
    \/ Finance_reset

SpecFinance == Init /\ [][NextFinance]_vars

-----------------------------------------------------------------------------
(* The finance store under its eight actions, each with a few values of    *)
(* its parameter's type.                                                   *)

StoreDueArrays ==
    {<<>>, <<Due(1, <<"pending", Null>>)>>, <<Due(1, <<"cleared", "payment">>)>>}

StoreCommissionArrays ==
    {<<>>, <<[id |-> "c1", eventId |-> "e1", status |-> "pending",
              participantsDuesCleared |-> 0, totalParticipants |-> 1]>>}

NextStore ==
    \/ \E s \in Summaries : Finance_setSummary(s)
    \/ \E t \in TransactionArrays : Finance_setTransactions(t)
    \/ \E d \in StoreDueArrays : Finance_setDues(d)
    \/ \E c \in StoreCommissionArrays : Finance_setCommissions(c)
    \/ \E w \in WithdrawalArrays : Finance_setWithdrawals(w)
    \/ \E b \in BOOLEAN : Finance_setLoading(b)
    \/ \E e \in Errors : Finance_setError(e)
    \/ Finance_reset

SpecStore == Init /\ [][NextStore]_vars

-----------------------------------------------------------------------------
(* useNotificationStore.  A notification is its id and its isRead flag;    *)
(* ids may repeat.                                                         *)

NotificationIds == {"n1", "n2"}
Notifications == [id : NotificationIds, isRead : BOOLEAN]
NotificationArrays == UNION {[1..k -> Notifications] : k \in 0..MaxNotifications}
NotificationErrors == {Null, "Network error"}

\* notifications.filter((n) => !n.isRead).length
calculateUnreadCount(notifications) ==
    Len(SelectSeq(notifications, LAMBDA n : ~n.isRead))

setNotifications(state, notifications) ==
    [state EXCEPT !.notifications = notifications,
                  !.unreadCount = calculateUnreadCount(notifications)]

addNotification(state, notification) ==
    LET newNotifications == <<notification>> \o state.notifications
    IN  [state EXCEPT !.notifications = newNotifications,
                      !.unreadCount = calculateUnreadCount(newNotifications)]

\* Mutant: a markAsRead that counts one down instead of counting again.
markAsRead_countsDown(state, id) ==
    [state EXCEPT
       !.notifications =
           [i \in DOMAIN @ |-> IF @[i].id = id
                               THEN [@[i] EXCEPT !.isRead = TRUE] ELSE @[i]],
       !.unreadCount = IF @ > 0 THEN @ - 1 ELSE 0]

markAsRead(state, id) ==
    LET newNotifications ==
            [i \in DOMAIN state.notifications |->
                IF state.notifications[i].id = id
                THEN [state.notifications[i] EXCEPT !.isRead = TRUE]
                ELSE state.notifications[i]]
    IN  [state EXCEPT !.notifications = newNotifications,
                      !.unreadCount = calculateUnreadCount(newNotifications)]

markAllAsRead(state) ==
    [state EXCEPT
       !.notifications = [i \in DOMAIN @ |-> [@[i] EXCEPT !.isRead = TRUE]],
       !.unreadCount = 0]

removeNotification(state, id) ==
    LET newNotifications == SelectSeq(state.notifications, LAMBDA n : n.id # id)
    IN  [state EXCEPT !.notifications = newNotifications,
                      !.unreadCount = calculateUnreadCount(newNotifications)]

notificationFrame ==
    <<financeStore, authStore, eventStore,
      prevCall, lastCall, lastDuesChange, walletScreen, appVars>>

Notification_setNotifications(notifications) ==
    /\ notificationStore' = setNotifications(notificationStore, notifications)
    /\ UNCHANGED notificationFrame

Notification_addNotification(notification) ==
    /\ Len(notificationStore.notifications) < MaxNotifications
    /\ notificationStore' = addNotification(notificationStore, notification)
    /\ UNCHANGED notificationFrame

Notification_markAsRead(id) ==
    /\ notificationStore' = markAsRead(notificationStore, id)
    /\ UNCHANGED notificationFrame

Notification_markAllAsRead ==
    /\ notificationStore' = markAllAsRead(notificationStore)
    /\ UNCHANGED notificationFrame

Notification_removeNotification(id) ==
    /\ notificationStore' = removeNotification(notificationStore, id)
    /\ UNCHANGED notificationFrame

Notification_setError(error) ==
    /\ notificationStore' = [notificationStore EXCEPT !.error = error]
    /\ UNCHANGED notificationFrame

Notification_reset ==
    /\ notificationStore' = notificationInitialState
    /\ UNCHANGED notificationFrame

NextNotification ==
    \/ \E ns \in NotificationArrays : Notification_setNotifications(ns)
    \/ \E n \in Notifications : Notification_addNotification(n)
    \/ \E id \in NotificationIds \cup {"absent"} : Notification_markAsRead(id)
    \/ Notification_markAllAsRead
    \/ \E id \in NotificationIds \cup {"absent"} :
          Notification_removeNotification(id)
    \/ \E b \in BOOLEAN : Notification_setLoading(b)
    \/ \E e \in NotificationErrors : Notification_setError(e)
    \/ Notification_reset

SpecNotification == Init /\ [][NextNotification]_vars

-----------------------------------------------------------------------------
(* useAuthStore.  A user is cut to its id and its kyc, the kyc to its      *)
(* status and one more field.                                              *)

KYCStatuses == {"not_started", "pending", "verified", "rejected"}
AuthUser(id) ==
    [id |-> id, kyc |-> [status |-> "not_started", verifiedAt |-> Null]]
AuthUsers == {NullObject} \cup {AuthUser(id) : id \in {"1", "2"}}
Tokens == {Null, "token-a", "token-b"}

\* set({ token })
setToken(state, token) == [state EXCEPT !.token = token]

\* set({ isOnboardingComplete })
setOnboardingComplete(state, complete) ==
    [state EXCEPT !.isOnboardingComplete = complete]

\* if (user) set({ user: { ...user, kyc: { ...user.kyc, status } } })
updateKYCStatus(state, status) ==
    IF state.user # NullObject
    THEN [state EXCEPT !.user.kyc.status = status]
    ELSE state

\* Mutant: a logout that is reset.
logout_resets(state) == authInitialState

\* set({ user: null, isAuthenticated: false, token: null })
logout(state) ==
    [state EXCEPT !.user = NullObject, !.isAuthenticated = FALSE,
                  !.token = Null]

authFrame ==
    <<financeStore, eventStore, notificationStore,
      prevCall, lastCall, lastDuesChange, walletScreen, appVars>>

Auth_setToken(token) ==
    /\ authStore' = setToken(authStore, token)
    /\ UNCHANGED authFrame

Auth_setLoading(isLoading) ==
    /\ authStore' = setLoading(authStore, isLoading)
    /\ UNCHANGED authFrame

Auth_setOnboardingComplete(complete) ==
    /\ authStore' = setOnboardingComplete(authStore, complete)
    /\ UNCHANGED authFrame

Auth_updateKYCStatus(status) ==
    /\ authStore' = updateKYCStatus(authStore, status)
    /\ UNCHANGED authFrame

Auth_logout ==
    /\ authStore' = logout(authStore)
    /\ UNCHANGED authFrame

Auth_reset ==
    /\ authStore' = authInitialState
    /\ UNCHANGED authFrame

NextAuth ==
    \/ \E u \in AuthUsers : Auth_setUser(u)
    \/ \E t \in Tokens : Auth_setToken(t)
    \/ \E b \in BOOLEAN : Auth_setLoading(b)
    \/ \E b \in BOOLEAN : Auth_setOnboardingComplete(b)
    \/ \E st \in KYCStatuses : Auth_updateKYCStatus(st)
    \/ Auth_logout
    \/ Auth_reset

SpecAuth == Init /\ [][NextAuth]_vars

-----------------------------------------------------------------------------
(* The ledger: calls of the breakdown function in any state of the stores. *)

NextLedger ==
    \/ \E g \in GrossInputs : Calculate(g)
    \/ \E s \in Summaries : Finance_setSummary(s)
    \/ Finance_reset
    \/ \E u \in {NullObject, MockUser} : Auth_setUser(u)
    \/ \E b \in BOOLEAN : Event_setLoading(b)
    \/ \E b \in BOOLEAN : Notification_setLoading(b)

SpecLedger == Init /\ [][NextLedger]_vars

-----------------------------------------------------------------------------
(* WalletScreen.  Its wallet data is a literal of the component (balance   *)
(* 3500, minimum 1000); the model renders the same component over other    *)
(* balances and dues as well, the minimum kept.  App passes no-ops for     *)
(* onWithdraw and onClearDues.                                             *)

\* disabled={wallet.availableBalance < wallet.minWithdrawal}
WithdrawDisabled_atMinimumToo(wallet) ==
    wallet.availableBalance <= wallet.minWithdrawal

WithdrawDisabled_wrongThreshold(wallet) ==
    wallet.availableBalance < Rupees(DUE_AMOUNT)

WithdrawDisabled(wallet) ==
    wallet.availableBalance < wallet.minWithdrawal

\* App renders WalletScreen (currentScreen = 'wallet'): fresh useState.
Wallet_mount ==
    /\ ~walletScreen.mounted
    /\ walletScreen' = [walletScreen EXCEPT !.mounted = TRUE,
                                            !.refreshing = FALSE,
                                            !.selectedTab = "all"]
    /\ UNCHANGED <<financeStore, authStore, eventStore, notificationStore,
                   prevCall, lastCall, lastDuesChange, appVars>>

\* onBack: App leaves the wallet screen.  The refresh timers of the
\* unmounted component still fire, to no effect (setRefreshing of a
\* component that is gone): the model drops them here.
Wallet_onBack ==
    /\ walletScreen.mounted
    /\ walletScreen' = [walletScreen EXCEPT !.mounted = FALSE,
                                            !.pendingRefresh = 0]
    /\ UNCHANGED <<financeStore, authStore, eventStore, notificationStore,
                   prevCall, lastCall, lastDuesChange, appVars>>

\* A screen whose Withdraw button debits the balance by the minimum.
Wallet_pressWithdraw_debitsBalance ==
    /\ walletScreen.mounted
    /\ ~WithdrawDisabled(walletScreen.wallet)
    /\ walletScreen' =
          [walletScreen EXCEPT !.onWithdrawCalled = TRUE,
                               !.wallet.availableBalance =
                                   @ - walletScreen.wallet.minWithdrawal]
    /\ UNCHANGED <<financeStore, authStore, eventStore, notificationStore,
                   prevCall, lastCall, lastDuesChange, appVars>>

\* The Withdraw button's onPress: onWithdraw(), which App gives as a no-op.
Wallet_pressWithdraw ==
    /\ walletScreen.mounted
    /\ ~WithdrawDisabled(walletScreen.wallet)
    /\ walletScreen' = [walletScreen EXCEPT !.onWithdrawCalled = TRUE]
    /\ UNCHANGED <<financeStore, authStore, eventStore, notificationStore,
                   prevCall, lastCall, lastDuesChange, appVars>>

\* The Clear Dues button, rendered when wallet.dues > 0: onClearDues().
Wallet_pressClearDues ==
    /\ walletScreen.mounted
    /\ walletScreen.wallet.dues > 0
    /\ walletScreen' = [walletScreen EXCEPT !.onClearDuesCalled = TRUE]
    /\ UNCHANGED <<financeStore, authStore, eventStore, notificationStore,
                   prevCall, lastCall, lastDuesChange, appVars>>

Wallet_setSelectedTab(tab) ==
    /\ walletScreen.mounted
    /\ walletScreen' = [walletScreen EXCEPT !.selectedTab = tab]
    /\ UNCHANGED <<financeStore, authStore, eventStore, notificationStore,
                   prevCall, lastCall, lastDuesChange, appVars>>

\* handleRefresh up to its await: setRefreshing(true), a 1500 ms timer.
Wallet_handleRefresh ==
    /\ walletScreen.mounted
    /\ walletScreen.pendingRefresh < MaxPendingRefresh
    /\ walletScreen' = [walletScreen EXCEPT !.refreshing = TRUE,
                                            !.pendingRefresh = @ + 1]
    /\ UNCHANGED <<financeStore, authStore, eventStore, notificationStore,
                   prevCall, lastCall, lastDuesChange, appVars>>

\* The timer fires and handleRefresh resumes: setRefreshing(false).
Wallet_refreshDone ==
    /\ walletScreen.mounted
    /\ walletScreen.pendingRefresh > 0
    /\ walletScreen' = [walletScreen EXCEPT !.pendingRefresh = @ - 1,
                                            !.refreshing = FALSE]
    /\ UNCHANGED <<financeStore, authStore, eventStore, notificationStore,
                   prevCall, lastCall, lastDuesChange, appVars>>

NextWallet ==
    \/ Wallet_mount
    \/ Wallet_onBack
    \/ Wallet_pressWithdraw
    \/ Wallet_pressClearDues
    \/ \E tab \in {"all", "commissions", "dues"} : Wallet_setSelectedTab(tab)
    \/ Wallet_handleRefresh
    \/ Wallet_refreshDone

SpecWallet == InitWallet /\ [][NextWallet]_vars

-----------------------------------------------------------------------------
(* The dues and the commission record of one event: the dues array is      *)
(* replaced by any array of up to MaxEventParticipants dues of the event,  *)
(* the commissions array by a record that follows the rule of the entity   *)
(* (grossAmount = cleared dues * DUE_AMOUNT, 'pending' until every         *)
(* participant's due is cleared).                                          *)

EventDue(i, st) == [Due(i, st) EXCEPT !.eventId = "e1"]

EventDueArrays ==
    {<<>>} \cup
    UNION {{[i \in 1..n |-> EventDue(i, f[i])] :
               f \in [1..n -> {<<"pending", Null>>, <<"cleared", "payment">>}]} :
             n \in 1..MaxEventParticipants}

EventCommission(n, k, st) ==
    [id |-> "c1", eventId |-> "e1",
     totalGenerated |-> k * Rupees(DUE_AMOUNT),
     commissionRate |-> COMMISSION_RATE,
     grossAmount |-> k * Rupees(DUE_AMOUNT),
     status |-> st,
     participantsDuesCleared |-> k, totalParticipants |-> n]

EventCommissionArrays ==
    {<<>>} \cup
    UNION {{<<EventCommission(n, k, "pending")>> : k \in 0..(n - 1)} :
             n \in 1..MaxEventParticipants} \cup
    {<<EventCommission(n, n, st)>> :
        n \in 1..MaxEventParticipants, st \in {"available", "withdrawn"}}

\* The creator's share of a commission record's gross amount.
CommissionAmount(c) == Times(c.grossAmount, c.commissionRate)

NextCommission ==
    \/ \E d \in EventDueArrays : Finance_setDues(d)
    \/ \E c \in EventCommissionArrays : Finance_setCommissions(c)
    \/ Finance_reset

SpecCommission == Init /\ [][NextCommission]_vars

-----------------------------------------------------------------------------
(* Payouts: the summary and the withdrawals of the finance store under     *)
(* every value of their types, and the wallet screen's Withdraw button.    *)

WithdrawalStatuses == {"pending", "processing", "completed", "failed"}

PayoutWithdrawal(i, st) ==
    [Withdrawal(Rupees(MIN_WITHDRAWAL_AMOUNT), st) EXCEPT !.id = "w" \o ToString(i)]

PayoutWithdrawalArrays ==
    {<<>>} \cup
    UNION {{[i \in 1..n |-> PayoutWithdrawal(i, f[i])] :
               f \in [1..n -> WithdrawalStatuses]} : n \in 1..MaxWithdrawals}

PayoutSummaries ==
    {Summary(a, f, GATEWAY_FEE_PERCENTAGE) :
        a \in {999, MIN_WITHDRAWAL_AMOUNT}, f \in BOOLEAN}

NextPayout ==
    \/ \E s \in PayoutSummaries : Finance_setSummary(s)
    \/ \E w \in PayoutWithdrawalArrays : Finance_setWithdrawals(w)
    \/ \E e \in Errors : Finance_setError(e)
    \/ Finance_reset
    \/ Wallet_mount
    \/ Wallet_onBack
    \/ Wallet_pressWithdraw

SpecPayout == Init /\ [][NextPayout]_vars

-----------------------------------------------------------------------------
(* App and the screens it renders.  App renders the one screen named by    *)
(* currentScreen; a screen's useState lives while it is rendered.  A       *)
(* setTimeout callback runs when its delay has passed: of two pending      *)
(* timers the one set later runs first only if its delay is shorter.       *)

ledgerVars == <<financeStore, eventStore, notificationStore,
                prevCall, lastCall, lastDuesChange, componentVars>>

\* The timers when the rendered screen has unmounted.  Mutant: an unmount
\* that cancels every timer of the screen.
Unmounted_cancelsAll(ts) == SelectSeq(ts, LAMBDA t : t.stale)

\* The effects' cleanups clear the splash timer and the resend countdown;
\* the other timers stay pending, their component gone.
RECURSIVE Unmounted(_)
Unmounted(ts) ==
    IF ts = <<>> THEN <<>>
    ELSE IF Head(ts).kind \in {"splash", "resend"} THEN Unmounted(Tail(ts))
         ELSE <<[Head(ts) EXCEPT !.stale = TRUE]>> \o Unmounted(Tail(ts))

ResendTick == Timer("resend", RESEND_TICK_DELAY, "", 0)

\* The timers when screen s has mounted: OTPScreen's effect starts the
\* resend countdown.
Mounted(s, ts) == IF s = "otp" THEN Append(ts, ResendTick) ELSE ts

Without(ts, j) == SubSeq(ts, 1, j - 1) \o SubSeq(ts, j + 1, Len(ts))

\* Mutant: a runtime that drops the callbacks of unmounted components.
CanFire_notStale(j) ==
    /\ ~timers[j].stale
    /\ \A i \in 1..(j - 1) : timers[i].delay > timers[j].delay

CanFire(j) == \A i \in 1..(j - 1) : timers[i].delay > timers[j].delay

\* setCurrentScreen(s), where the handler has also made the App's state a,
\* the screens' state sc and the timers ts.  Another screen is rendered
\* with fresh useState; the same screen stays as it is.
setCurrentScreen(s, a, sc, ts) ==
    /\ app' = [a EXCEPT !.currentScreen = s]
    /\ IF s = app.currentScreen
       THEN /\ screens' = sc
            /\ timers' = ts
            /\ walletScreen' = walletScreen
       ELSE /\ screens' = ScreensInitial
            /\ timers' = Mounted(s, Unmounted(ts))
            /\ walletScreen' =
                  IF s = "wallet"
                  THEN [walletScreen EXCEPT !.mounted = TRUE,
                                            !.refreshing = FALSE,
                                            !.selectedTab = "all"]
                  ELSE IF app.currentScreen = "wallet"
                  THEN [walletScreen EXCEPT !.mounted = FALSE,
                                            !.pendingRefresh = 0]
                  ELSE walletScreen

\* A user's press that only navigates.
Navigate(from, to) ==
    /\ app.currentScreen = from
    /\ setCurrentScreen(to, app, screens, timers)
    /\ UNCHANGED <<ledgerVars, authStore, started, lastCallback>>

\* handleSplashFinish, over the auth state its closure holds.
handleSplashFinish(auth) ==
    IF auth.isAuthenticated THEN "main"
    ELSE IF auth.isOnboardingComplete THEN "login"
    ELSE "onboarding"

\* SplashScreen's timer: onFinish() of the first render, whose closure
\* holds the auth state of App's first render.
Splash_finish ==
    \E j \in DOMAIN timers :
        /\ timers[j].kind = "splash"
        /\ CanFire(j)
        /\ setCurrentScreen(handleSplashFinish(authInitialState), app, screens,
                            Without(timers, j))
        /\ lastCallback' = [name |-> "onFinish", arg |-> "", id |-> 0]
        /\ UNCHANGED <<ledgerVars, authStore, started>>

\* handleOnboardingComplete
Onboarding_onComplete ==
    /\ app.currentScreen = "onboarding"
    /\ authStore' = [authStore EXCEPT !.isOnboardingComplete = TRUE]
    /\ setCurrentScreen("login", app, screens, timers)
    /\ UNCHANGED <<ledgerVars, started, lastCallback>>

\* The phone numbers and passwords typed: none, and a valid one.
Phones == {"", "9876543210"}
Passwords == {"", "secret12"}

\* validateForm of LoginScreen and SignupScreen, on the typed values.
validateForm(phone, password) == phone # "" /\ password # ""

\* LoginScreen.handleLogin, up to setTimeout.  The button is disabled
\* while isLoading.
Login_handleLogin(phone, password) ==
    /\ app.currentScreen = "login"
    /\ ~screens.login.isLoading
    /\ started < MaxCalls
    /\ IF ~validateForm(phone, password)
       THEN /\ screens' = [screens EXCEPT !.login.hasErrors = TRUE]
            /\ UNCHANGED <<timers, started>>
       ELSE /\ screens' = [screens EXCEPT !.login.hasErrors = FALSE,
                                          !.login.isLoading = TRUE]
            /\ timers' = Append(timers, Timer("login", API_DELAY, phone, started + 1))
            /\ started' = started + 1
    /\ UNCHANGED <<ledgerVars, authStore, walletScreen, app, lastCallback>>

\* The timer of handleLogin or handleSignup (kind): setIsLoading(false),
\* then onLogin / onSignup, which App handles alike: setPhoneNumber,
\* setCurrentScreen('otp').
AuthDone(kind, prop) ==
    \E j \in DOMAIN timers :
        LET t == timers[j]
            sc == IF t.stale THEN screens
                  ELSE [screens EXCEPT ![kind].isLoading = FALSE]
        IN  /\ t.kind = kind
            /\ CanFire(j)
            /\ setCurrentScreen("otp", [app EXCEPT !.phoneNumber = t.arg], sc,
                                Without(timers, j))
            /\ lastCallback' = [name |-> prop, arg |-> t.arg, id |-> t.id]
            /\ UNCHANGED <<ledgerVars, authStore, started>>

Login_loginDone == AuthDone("login", "onLogin")

\* SignupScreen.handleSignup, up to setTimeout.
Signup_handleSignup(phone, password) ==
    /\ app.currentScreen = "signup"
    /\ ~screens.signup.isLoading
    /\ started < MaxCalls
    /\ IF ~validateForm(phone, password)
       THEN /\ screens' = [screens EXCEPT !.signup.hasErrors = TRUE]
            /\ UNCHANGED <<timers, started>>
       ELSE /\ screens' = [screens EXCEPT !.signup.hasErrors = FALSE,
                                          !.signup.isLoading = TRUE]
            /\ timers' = Append(timers, Timer("signup", API_DELAY, phone, started + 1))
            /\ started' = started + 1
    /\ UNCHANGED <<ledgerVars, authStore, walletScreen, app, lastCallback>>

Signup_signupDone == AuthDone("signup", "onSignup")

\* OTPScreen.  The six digits typed: not all of them yet (""), the code
\* the screen refuses, or another code.
SentinelOtp == "000000"
InvalidOtp == "Invalid OTP. Please try again."
OtpCodes == {"", SentinelOtp, "123456"}

\* Mutants of the timer's branch: a screen that refuses no code, and one
\* that reports the error and goes on.
VerifyFails_never(otpValue) == FALSE
VerifyCalls_always(otpValue) == TRUE

\* if (otpValue === '000000') setError(...) else onVerify(otpValue)
VerifyFails(otpValue) == otpValue = SentinelOtp
VerifyCalls(otpValue) == ~VerifyFails(otpValue)

\* handleVerify, up to setTimeout, on the screens' state sc.
handleVerify(otpValue, sc) ==
    /\ started < MaxCalls
    /\ screens' = [sc EXCEPT !.otp.isLoading = TRUE]
    /\ timers' = Append(timers, Timer("verify", API_DELAY, otpValue, started + 1))
    /\ started' = started + 1

\* handleOtpChange of one digit, making the digits `code`: clears the
\* error and, when the digit is the last one and the code is complete,
\* submits it, whether a verification is pending or not.
Otp_handleOtpChange(code, last) ==
    /\ app.currentScreen = "otp"
    /\ LET sc == [screens EXCEPT !.otp.otp = code, !.otp.error = ""]
       IN  IF last /\ code # ""
           THEN handleVerify(code, sc)
           ELSE screens' = sc /\ UNCHANGED <<timers, started>>
    /\ UNCHANGED <<ledgerVars, authStore, walletScreen, app, lastCallback>>

\* handleOtpChange of a pasted code: the digits only.
Otp_paste(code) ==
    /\ app.currentScreen = "otp"
    /\ code # ""
    /\ screens' = [screens EXCEPT !.otp.otp = code]
    /\ UNCHANGED <<ledgerVars, authStore, walletScreen, app, timers, started,
                   lastCallback>>

\* The Verify button: disabled until the code is complete and while
\* isLoading.
Otp_pressVerify ==
    /\ app.currentScreen = "otp"
    /\ screens.otp.otp # ""
    /\ ~screens.otp.isLoading
    /\ handleVerify(screens.otp.otp, screens)
    /\ UNCHANGED <<ledgerVars, authStore, walletScreen, app, lastCallback>>

\* The timer of handleVerify.
Otp_verifyDone ==
    \E j \in DOMAIN timers :
        LET t == timers[j]
            sc == IF t.stale THEN screens
                  ELSE [screens EXCEPT
                          !.otp.isLoading = FALSE,
                          !.otp.error = IF VerifyFails(t.arg) THEN InvalidOtp ELSE @]
        IN  /\ t.kind = "verify"
            /\ CanFire(j)
            /\ IF VerifyCalls(t.arg)
               THEN /\ setCurrentScreen("citySelection", app, sc, Without(timers, j))
                    /\ lastCallback' = [name |-> "onVerify", arg |-> t.arg, id |-> t.id]
               ELSE /\ screens' = sc
                    /\ timers' = Without(timers, j)
                    /\ lastCallback' = [name |-> "none", arg |-> t.arg, id |-> t.id]
                    /\ UNCHANGED <<app, walletScreen>>
            /\ UNCHANGED <<ledgerVars, authStore, started>>

\* The resend countdown: setResendTimer(resendTimer - 1), and the effect
\* sets the next timer while the count is positive.
Otp_resendTick ==
    \E j \in DOMAIN timers :
        /\ timers[j].kind = "resend"
        /\ CanFire(j)
        /\ screens' = [screens EXCEPT !.otp.resendTimer = @ - 1]
        /\ timers' = IF screens.otp.resendTimer - 1 > 0
                     THEN Append(Without(timers, j), ResendTick)
                     ELSE Without(timers, j)
        /\ UNCHANGED <<ledgerVars, authStore, walletScreen, app, started,
                       lastCallback>>

\* handleResend; onResend is a no-op in App.
Otp_handleResend ==
    /\ app.currentScreen = "otp"
    /\ screens.otp.resendTimer = 0
    /\ screens' = [screens EXCEPT !.otp.resendTimer = RESEND_SECONDS,
                                  !.otp.otp = "", !.otp.error = ""]
    /\ timers' = Append(timers, ResendTick)
    /\ UNCHANGED <<ledgerVars, authStore, walletScreen, app, started,
                   lastCallback>>

\* handleCitySelected: setUser(mock user), setCurrentScreen('main').
AppUser(phoneNumber) ==
    [id |-> "1", phoneNumber |-> phoneNumber, kyc |-> [status |-> "not_started"]]

City_onCitySelected ==
    /\ app.currentScreen = "citySelection"
    /\ authStore' = setUser(authStore, AppUser(app.phoneNumber))
    /\ setCurrentScreen("main", app, screens, timers)
    /\ UNCHANGED <<ledgerVars, started, lastCallback>>

\* SettingsScreen onLogout: setUser(null), setCurrentScreen('login').
Settings_onLogout ==
    /\ app.currentScreen = "settings"
    /\ authStore' = setUser(authStore, NullObject)
    /\ setCurrentScreen("login", app, screens, timers)
    /\ UNCHANGED <<ledgerVars, started, lastCallback>>

\* MainNavigator onEventPress, and onFriendChat / FriendsScreen onChatPress.
Main_onEventPress(eventId) ==
    /\ app.currentScreen = "main"
    /\ setCurrentScreen("eventDetail", [app EXCEPT !.selectedEventId = eventId],
                        screens, timers)
    /\ UNCHANGED <<ledgerVars, authStore, started, lastCallback>>

App_openChat(from, friendId) ==
    /\ app.currentScreen = from
    /\ setCurrentScreen("chat", [app EXCEPT !.selectedChatId = friendId],
                        screens, timers)
    /\ UNCHANGED <<ledgerVars, authStore, started, lastCallback>>

\* CreateEventScreen: the footer button is handleNext until the last step
\* and handleSubmit on it, disabled while isSubmitting; the back button is
\* handlePrevious.
CreateEvent_handleNext ==
    /\ app.currentScreen = "createEvent"
    /\ ~screens.createEvent.isSubmitting
    /\ screens.createEvent.currentStep < LAST_STEP
    /\ screens' = [screens EXCEPT !.createEvent.currentStep = @ + 1]
    /\ UNCHANGED <<ledgerVars, authStore, walletScreen, app, timers, started,
                   lastCallback>>

CreateEvent_handlePrevious ==
    /\ app.currentScreen = "createEvent"
    /\ IF screens.createEvent.currentStep > 0
       THEN /\ screens' = [screens EXCEPT !.createEvent.currentStep = @ - 1]
            /\ UNCHANGED <<walletScreen, app, timers>>
       ELSE setCurrentScreen("main", app, screens, timers)
    /\ UNCHANGED <<ledgerVars, authStore, started, lastCallback>>

\* Mutant: a footer button that is not disabled while isSubmitting.
CreateEvent_handleSubmit_whileSubmitting ==
    /\ app.currentScreen = "createEvent"
    /\ screens.createEvent.currentStep = LAST_STEP
    /\ started < MaxCalls
    /\ screens' = [screens EXCEPT !.createEvent.isSubmitting = TRUE]
    /\ timers' = Append(timers, Timer("submit", SUBMIT_DELAY, "", started + 1))
    /\ started' = started + 1
    /\ UNCHANGED <<ledgerVars, authStore, walletScreen, app, lastCallback>>

CreateEvent_handleSubmit ==
    /\ app.currentScreen = "createEvent"
    /\ ~screens.createEvent.isSubmitting
    /\ screens.createEvent.currentStep = LAST_STEP
    /\ started < MaxCalls
    /\ screens' = [screens EXCEPT !.createEvent.isSubmitting = TRUE]
    /\ timers' = Append(timers, Timer("submit", SUBMIT_DELAY, "", started + 1))
    /\ started' = started + 1
    /\ UNCHANGED <<ledgerVars, authStore, walletScreen, app, lastCallback>>

\* The timer of handleSubmit: setIsSubmitting(false), onCreate(formData).
CreateEvent_submitDone ==
    \E j \in DOMAIN timers :
        LET t == timers[j]
            sc == IF t.stale THEN screens
                  ELSE [screens EXCEPT !.createEvent.isSubmitting = FALSE]
        IN  /\ t.kind = "submit"
            /\ CanFire(j)
            /\ setCurrentScreen("main", app, sc, Without(timers, j))
            /\ lastCallback' = [name |-> "onCreate", arg |-> t.arg, id |-> t.id]
            /\ UNCHANGED <<ledgerVars, authStore, started>>

\* EventDetailScreen.handleJoin (the mock event is not joined), up to
\* setTimeout, and its timer: setIsJoining(false), the alert, onJoin(),
\* which is a no-op in App.
EventDetail_handleJoin ==
    /\ app.currentScreen = "eventDetail"
    /\ ~screens.eventDetail.isJoining
    /\ started < MaxCalls
    /\ screens' = [screens EXCEPT !.eventDetail.isJoining = TRUE]
    /\ timers' = Append(timers, Timer("join", API_DELAY, "", started + 1))
    /\ started' = started + 1
    /\ UNCHANGED <<ledgerVars, authStore, walletScreen, app, lastCallback>>

EventDetail_joinDone ==
    \E j \in DOMAIN timers :
        LET t == timers[j]
        IN  /\ t.kind = "join"
            /\ CanFire(j)
            /\ screens' = IF t.stale THEN screens
                          ELSE [screens EXCEPT !.eventDetail.isJoining = FALSE]
            /\ timers' = Without(timers, j)
            /\ lastCallback' = [name |-> "onJoin", arg |-> t.arg, id |-> t.id]
            /\ UNCHANGED <<ledgerVars, authStore, walletScreen, app, started>>

\* The presses that only navigate: <<screen, prop's target>>.
Navigations ==
    {<<"login", "signup">>, <<"login", "citySelection">>,
     <<"signup", "login">>, <<"signup", "citySelection">>,
     <<"otp", "login">>, <<"citySelection", "login">>,
     <<"main", "createEvent">>, <<"main", "notifications">>,
     <<"main", "settings">>, <<"main", "wallet">>, <<"main", "friends">>,
     <<"eventDetail", "main">>, <<"settings", "main">>,
     <<"notifications", "main">>, <<"wallet", "main">>,
     <<"friends", "main">>, <<"chat", "friends">>}

TimerFires ==
    \/ Splash_finish
    \/ Login_loginDone
    \/ Signup_signupDone
    \/ Otp_verifyDone
    \/ Otp_resendTick
    \/ CreateEvent_submitDone
    \/ EventDetail_joinDone

NextApp ==
    \/ TimerFires
    \/ Onboarding_onComplete
    \/ \E n \in Navigations : Navigate(n[1], n[2])
    \/ \E ph \in Phones, pw \in Passwords : Login_handleLogin(ph, pw)
    \/ \E ph \in Phones, pw \in Passwords : Signup_handleSignup(ph, pw)
    \/ \E c \in OtpCodes, last \in BOOLEAN : Otp_handleOtpChange(c, last)
    \/ \E c \in OtpCodes : Otp_paste(c)
    \/ Otp_pressVerify
    \/ Otp_handleResend
    \/ City_onCitySelected
    \/ Settings_onLogout
    \/ Main_onEventPress("1")
    \/ \E from \in {"main", "friends"} : App_openChat(from, "f1")
    \/ CreateEvent_handleNext
    \/ CreateEvent_handlePrevious
    \/ CreateEvent_handleSubmit
    \/ EventDetail_handleJoin

SpecApp == Init /\ [][NextApp]_vars

\* A timer whose delay has passed runs: the JavaScript event loop keeps
\* running whatever the user does.
\* The liveness check follows fewer calls than the safety checks do.
NextAppFair == NextApp /\ started' <= MaxFairCalls

SpecAppFair ==
    /\ Init /\ [][NextAppFair]_vars
    /\ WF_vars(Splash_finish)
    /\ WF_vars(Otp_resendTick)
    /\ WF_vars(Login_loginDone)
    /\ WF_vars(Signup_signupDone)
    /\ WF_vars(Otp_verifyDone)
    /\ WF_vars(CreateEvent_submitDone)
    /\ WF_vars(EventDetail_joinDone)

-----------------------------------------------------------------------------
(* OTPScreen on its own.  Its props onVerify and onResend are recorded in  *)
(* otpCalled; the cells of the code are strings, and the codes entered are *)
(* made of the digit '0' (and of 'a', which is no digit), so that the      *)
(* cells' states stay few.  The resend countdown is the component's: from  *)
(* 30.                                                                     *)

DigitChars == {"0", "1", "2", "3", "4", "5", "6", "7", "8", "9"}

\* /^\d*$/.test(value)
IsDigits(value) == \A i \in DOMAIN value : value[i] \in DigitChars

Min(a, b) == IF a < b THEN a ELSE b

\* otp.join('')
RECURSIVE JoinFrom(_, _)
JoinFrom(otp, i) ==
    IF i > OTP_LENGTH - 1 THEN <<>> ELSE otp[i] \o JoinFrom(otp, i + 1)

Join(otp) == JoinFrom(otp, 0)

otpFrame ==
    <<financeStore, authStore, eventStore, notificationStore,
      prevCall, lastCall, lastDuesChange, walletScreen,
      app, screens, timers, started, lastCallback, formData>>

\* handleVerify(otpValue) on the component's state st: setIsLoading(true)
\* and the timer.
OtpScreen_handleVerify(otpValue, st) ==
    /\ Len(otpTimers) < MaxOtpVerifies
    /\ otpScreen' = [st EXCEPT !.isLoading = TRUE]
    /\ otpTimers' = Append(otpTimers, otpValue)

\* handleOtpChange(value, index), the branch of a pasted text: the cells
\* from the first one take its characters.
pasteOtp(otp, value) ==
    LET pastedOtp == SubSeq(value, 1, Min(Len(value), OTP_LENGTH))
    IN  [i \in DOMAIN otp |->
            IF i < Len(pastedOtp) THEN <<pastedOtp[i + 1]>> ELSE otp[i]]

\* Mutant: a change handler that stores the text in the cell as it is.
OtpScreen_handleOtpChange_storesText(value, index) ==
    /\ IsDigits(value)
    /\ otpScreen' = [otpScreen EXCEPT !.otp[index] = value, !.error = ""]
    /\ UNCHANGED otpTimers
    /\ otpCalled' = <<>>
    /\ UNCHANGED otpFrame

OtpScreen_handleOtpChange(value, index) ==
    /\ IsDigits(value)
    /\ IF Len(value) > 1
       THEN /\ otpScreen' =
                  [otpScreen EXCEPT
                     !.otp = pasteOtp(@, value),
                     !.activeIndex = Min(Len(value) - 1, OTP_LENGTH - 1)]
            /\ UNCHANGED otpTimers
       ELSE LET newOtp == [otpScreen.otp EXCEPT ![index] = value]
                st == [otpScreen EXCEPT
                         !.otp = newOtp,
                         !.error = "",
                         !.activeIndex =
                             IF value # <<>> /\ index < OTP_LENGTH - 1
                             THEN index + 1 ELSE @]
            IN  IF /\ value # <<>>
                   /\ index = OTP_LENGTH - 1
                   /\ Len(Join(newOtp)) = OTP_LENGTH
                THEN OtpScreen_handleVerify(Join(newOtp), st)
                ELSE otpScreen' = st /\ UNCHANGED otpTimers
    /\ otpCalled' = <<>>
    /\ UNCHANGED otpFrame

\* handleKeyPress of Backspace in cell index.
OtpScreen_handleKeyPress(index) ==
    /\ otpScreen.otp[index] = <<>>
    /\ index > 0
    /\ otpScreen' = [otpScreen EXCEPT !.otp[index - 1] = <<>>,
                                      !.activeIndex = index - 1]
    /\ otpCalled' = <<>>
    /\ UNCHANGED <<otpTimers, otpFrame>>

\* onFocus of cell index.
OtpScreen_onFocus(index) ==
    /\ otpScreen' = [otpScreen EXCEPT !.activeIndex = index]
    /\ otpCalled' = <<>>
    /\ UNCHANGED <<otpTimers, otpFrame>>

\* The Verify button: disabled unless the joined cells have OTP_LENGTH
\* characters, and while isLoading.
OtpScreen_pressVerify ==
    /\ Len(Join(otpScreen.otp)) = OTP_LENGTH
    /\ ~otpScreen.isLoading
    /\ OtpScreen_handleVerify(Join(otpScreen.otp), otpScreen)
    /\ otpCalled' = <<>>
    /\ UNCHANGED otpFrame

\* The timer of handleVerify.
OtpScreen_verifyDone ==
    /\ otpTimers # <<>>
    /\ LET otpValue == Head(otpTimers)
       IN  IF otpValue = Repeat("0", OTP_LENGTH)
           THEN /\ otpScreen' = [otpScreen EXCEPT !.isLoading = FALSE,
                                                  !.error = InvalidOtp]
                /\ otpCalled' = <<>>
           ELSE /\ otpScreen' = [otpScreen EXCEPT !.isLoading = FALSE]
                /\ otpCalled' = <<"onVerify">>
    /\ otpTimers' = Tail(otpTimers)
    /\ UNCHANGED otpFrame

\* Mutant: a countdown that goes on below 0.
OtpScreen_resendTick_belowZero ==
    /\ otpScreen.resendTimer >= 0
    /\ otpScreen' = [otpScreen EXCEPT !.resendTimer = @ - 1]
    /\ otpCalled' = <<>>
    /\ UNCHANGED <<otpTimers, otpFrame>>

\* The resend effect's timer: if (resendTimer > 0), after 1000 ms,
\* setResendTimer(resendTimer - 1).
OtpScreen_resendTick ==
    /\ otpScreen.resendTimer > 0
    /\ otpScreen' = [otpScreen EXCEPT !.resendTimer = @ - 1]
    /\ otpCalled' = <<>>
    /\ UNCHANGED <<otpTimers, otpFrame>>

\* handleResend, called at any time: its first line returns while the
\* countdown runs.
OtpScreen_handleResend ==
    /\ IF otpScreen.resendTimer > 0
       THEN /\ UNCHANGED otpScreen
            /\ otpCalled' = <<>>
       ELSE /\ otpScreen' =
                  [otpScreen EXCEPT
                     !.resendTimer = RESEND_FROM,
                     !.otp = [i \in 0..(OTP_LENGTH - 1) |-> <<>>],
                     !.error = "",
                     !.activeIndex = 0]
            /\ otpCalled' = <<"onResend">>
    /\ UNCHANGED <<otpTimers, otpFrame>>

CellIndices == 0..(OTP_LENGTH - 1)

\* The texts a cell's TextInput (maxLength OTP_LENGTH) gives
\* handleOtpChange: none, a digit, a letter, two characters, a whole code.
OtpValues ==
    {<<>>, <<"0">>, <<"a">>, <<"0", "0">>, <<"0", "a">>,
     Repeat("0", OTP_LENGTH)}

NextOtp ==
    \/ \E v \in OtpValues, i \in CellIndices : OtpScreen_handleOtpChange(v, i)
    \/ \E i \in CellIndices : OtpScreen_handleKeyPress(i)
    \/ \E i \in CellIndices : OtpScreen_onFocus(i)
    \/ OtpScreen_pressVerify
    \/ OtpScreen_verifyDone
    \/ OtpScreen_resendTick
    \/ OtpScreen_handleResend

SpecOtp == Init /\ [][NextOtp]_vars

-----------------------------------------------------------------------------
(* CreateEventScreen's form on its own: the handlers that toggle and fill  *)
(* genderAllowed, requiresApproval and rules.                              *)

formFrame ==
    <<financeStore, authStore, eventStore, notificationStore,
      prevCall, lastCall, lastDuesChange, walletScreen,
      app, screens, timers, started, lastCallback,
      otpScreen, otpTimers, otpCalled>>

\* current.includes(gender)
Includes(current, x) == \E i \in DOMAIN current : current[i] = x

\* Mutant: a toggle that removes the last gender as well.
toggleGender_removesLast(current, gender) ==
    IF Includes(current, gender)
    THEN SelectSeq(current, LAMBDA g : g # gender)
    ELSE Append(current, gender)

\* toggleGender(gender) on the list current: the value given to
\* updateField, or the list as it is.
toggleGender(current, gender) ==
    IF Includes(current, gender)
    THEN IF Len(current) > 1
         THEN SelectSeq(current, LAMBDA g : g # gender)
         ELSE current
    ELSE Append(current, gender)

\* formData.rules.filter((_, i) => i !== index), index from 0.
RemoveAt(seq, index) ==
    SubSeq(seq, 1, index) \o SubSeq(seq, index + 2, Len(seq))

Rules == {"No smoking", "Be on time"}

Form_toggleGender(gender) ==
    /\ formData' = [formData EXCEPT !.genderAllowed = toggleGender(@, gender)]
    /\ UNCHANGED formFrame

Form_toggleApproval ==
    /\ formData' = [formData EXCEPT !.requiresApproval = ~@]
    /\ UNCHANGED formFrame

Form_handleAddRule(rule) ==
    /\ Len(formData.rules) < MaxRules
    /\ formData' = [formData EXCEPT !.rules = Append(@, rule)]
    /\ UNCHANGED formFrame

Form_handleRemoveRule(index) ==
    /\ index < Len(formData.rules)
    /\ formData' = [formData EXCEPT !.rules = RemoveAt(@, index)]
    /\ UNCHANGED formFrame

NextForm ==
    \/ \E g \in Genders : Form_toggleGender(g)
    \/ Form_toggleApproval
    \/ \E r \in Rules : Form_handleAddRule(r)
    \/ \E i \in 0..(MaxRules - 1) : Form_handleRemoveRule(i)

SpecForm == Init /\ [][NextForm]_vars

-----------------------------------------------------------------------------
(* Properties of calculateWithdrawalBreakdown (SpecLedger).                *)

MadeCalls == {c \in {prevCall, lastCall} : c.called}

\* C1: for every non-negative grossAmount the returned gatewayFee, gst and
\* netAmount sum back to grossAmount (in exact fixed-point arithmetic).
C1_SumsBackToGross ==
    \A c \in MadeCalls :
        (c.grossAmount >= 0 /\ ~c.threw) =>
            c.value.gatewayFee + c.value.gst + c.value.netAmount = c.grossAmount

C1_Witness ==
    /\ lastCall.called
    /\ lastCall.grossAmount = Rupees(3500)
    /\ lastCall.value.gst > 0
    /\ lastCall.value.gatewayFee + lastCall.value.gst
           + lastCall.value.netAmount = Rupees(3500)

C3_NetWithinGross_Original ==
    \A c \in MadeCalls :
        ~c.threw =>
            (c.value.netAmount >= 0 /\ c.value.netAmount <= c.grossAmount)

\* C3 as amended: for every non-negative grossAmount the netAmount is never
\* negative and never exceeds the grossAmount.
C3_NetWithinGross ==
    \A c \in MadeCalls :
        (c.grossAmount >= 0 /\ ~c.threw) =>
            (c.value.netAmount >= 0 /\ c.value.netAmount <= c.grossAmount)

C3_Witness ==
    /\ lastCall.called
    /\ lastCall.grossAmount = Rupees(MIN_WITHDRAWAL_AMOUNT)
    /\ lastCall.value.netAmount > 0
    /\ lastCall.value.netAmount < lastCall.grossAmount
    /\ prevCall.called
    /\ prevCall.grossAmount = 0
    /\ prevCall.value.netAmount = 0

\* C4: netAmount is monotonically non-decreasing in grossAmount.
C4_NetMonotone ==
    \A c1, c2 \in MadeCalls :
        (~c1.threw /\ ~c2.threw /\ c1.grossAmount <= c2.grossAmount) =>
            c1.value.netAmount <= c2.value.netAmount

C4_Witness ==
    /\ prevCall.called /\ lastCall.called
    /\ prevCall.grossAmount = Rupees(MIN_WITHDRAWAL_AMOUNT)
    /\ lastCall.grossAmount = Rupees(999)
    /\ lastCall.value.netAmount < prevCall.value.netAmount

\* C5 as stated: a zero or negative grossAmount is rejected, and no
\* negative netAmount is produced for it.
C5_NonPositiveRejected_Original ==
    \A c \in MadeCalls :
        c.grossAmount <= 0 => (c.threw /\ c.value.netAmount >= 0)

\* C5 as amended: a zero or negative grossAmount is not rejected; the
\* function returns netAmount = 0.9764 * grossAmount for it, which is 0
\* for zero and negative for a negative amount.
C5_NonPositivePassedThrough ==
    \A c \in MadeCalls :
        c.grossAmount <= 0 =>
            /\ ~c.threw
            /\ c.value.netAmount * 10000 = c.grossAmount * 9764
            /\ (c.grossAmount = 0 => c.value.netAmount = 0)
            /\ (c.grossAmount < 0 => c.value.netAmount < 0)

C5_Witness ==
    /\ lastCall.called
    /\ lastCall.grossAmount = Rupees(0 - 1)
    /\ ~lastCall.threw
    /\ lastCall.value.netAmount = 0 - 9764

\* C6: the function signals no error for any input, and for a grossAmount
\* of 0 it returns a gatewayFee, a gst and a netAmount of 0.
C6_TotalAndZeroAtZero ==
    \A c \in MadeCalls :
        /\ ~c.threw
        /\ c.grossAmount = 0 =>
              (c.value.gatewayFee = 0 /\ c.value.gst = 0 /\ c.value.netAmount = 0)

C6_Witness ==
    /\ lastCall.called
    /\ lastCall.grossAmount = 0
    /\ ~lastCall.threw
    /\ lastCall.value = [gatewayFee |-> 0, gst |-> 0, netAmount |-> 0]
    /\ prevCall.called
    /\ prevCall.grossAmount < 0
    /\ ~prevCall.threw

\* C7: two calls with the same grossAmount, made in any two states of the
\* stores, return equal records, and no call changes a field of a store.
SameInputSameOutput ==
    (prevCall.called /\ lastCall.called
        /\ prevCall.grossAmount = lastCall.grossAmount) =>
            (prevCall.threw = lastCall.threw /\ prevCall.value = lastCall.value)

CallLeavesStores ==
    (lastCall' # lastCall \/ prevCall' # prevCall) => stores' = stores

-----------------------------------------------------------------------------
(* Properties of the dues and commission records (SpecFinance).            *)

\* A step that clears a pending due of the store, and one that clears a
\* cleared due again (its clearedVia, or another due of the array, changes).
ClearsDue ==
    /\ financeStore'.dues # financeStore.dues
    /\ NewlyClearedIds(financeStore.dues, financeStore'.dues) # {}

ClearsDueAgain ==
    /\ financeStore'.dues # financeStore.dues
    /\ ReClearedIds(financeStore.dues, financeStore'.dues) # {}

Released(c) == c.status \in {"available", "withdrawn"}

AvailableIffAllCleared ==
    \A j \in DOMAIN financeStore.commissions :
        LET c == financeStore.commissions[j]
        IN  Released(c) <=> (c.participantsDuesCleared = c.totalParticipants)

StatusesKept ==
    /\ DOMAIN financeStore'.commissions = DOMAIN financeStore.commissions
    /\ \A j \in DOMAIN financeStore.commissions :
          financeStore'.commissions[j].status = financeStore.commissions[j].status

\* C9 as stated: in every reachable state a CommissionRecord is 'available'
\* (or later) if and only if its participantsDuesCleared equals its
\* totalParticipants, and clearing a due of a different event never changes
\* the record's status.
C9_AvailableIffAllCleared_Original ==
    /\ [](AvailableIffAllCleared)
    /\ [][(ClearsDue /\ lastDuesChange'.commission = "other") => StatusesKept]_vars

\* C9 as amended: the store does not tie a CommissionRecord's status to its
\* counts; clearing a due, of the record's own event or of a different one,
\* never changes the record's status, which changes only when the
\* commissions array is replaced (setCommissions, reset).
C9_ClearingKeepsStatus ==
    [][(ClearsDue \/ ClearsDueAgain) => StatusesKept]_vars

C9_Witness ==
    /\ lastDuesChange = [change |-> "clear", commission |-> "other"]
    /\ financeStore.dues # <<>>
    /\ financeStore.dues[1].status = "cleared"
    /\ financeStore.commissions # <<>>
    /\ financeStore.commissions[1].eventId # financeStore.dues[1].eventId
    /\ financeStore.commissions[1].status = "pending"

ClearedCounts(state) ==
    [j \in DOMAIN state.commissions |->
        state.commissions[j].participantsDuesCleared]

\* C10: clearing a DueRecord that is already 'cleared' changes no
\* CommissionRecord's participantsDuesCleared count.
C10_ReClearingKeepsCounts ==
    [][ClearsDueAgain => ClearedCounts(financeStore') = ClearedCounts(financeStore)]_vars

C10_Witness ==
    /\ lastDuesChange = [change |-> "reclear", commission |-> "same"]
    /\ financeStore.dues # <<>>
    /\ financeStore.dues[1].status = "cleared"
    /\ financeStore.dues[1].clearedVia = "commission"
    /\ financeStore.commissions # <<>>
    /\ financeStore.commissions[1].eventId = financeStore.dues[1].eventId
    /\ financeStore.commissions[1].participantsDuesCleared = 1

\* A step that shows as 'pending' a due the store held 'cleared'.
ReopenedIds(old, dues) ==
    {old[i].id : i \in {k \in DOMAIN old :
        /\ old[k].status = "cleared"
        /\ \E j \in DOMAIN dues :
              dues[j].id = old[k].id /\ dues[j].status = "pending"}}

ReopensDue == ReopenedIds(financeStore.dues, financeStore'.dues) # {}

IsSetDues == \E d \in DueArrays : Finance_setDues(d)

\* C12 as stated: a DueRecord can only move from 'pending' to 'cleared',
\* and 'cleared' is terminal: over any sequence of finance-state operations
\* a due that has been observed as 'cleared' is never observed as 'pending'
\* again.
C12_ClearedIsTerminal_Original == [][~ReopensDue]_vars

\* C12 as amended: a DueRecord is 'pending' or 'cleared', and over any
\* sequence of finance-state operations only setDues changes what a due is
\* observed as: it stores the array it is given, so a 'cleared' due is
\* 'pending' again when the array given says so; no other operation
\* reopens a due (reset removes the dues).
C12_OnlySetDuesReopens ==
    /\ [](\A i \in DOMAIN financeStore.dues :
             financeStore.dues[i].status \in {"pending", "cleared"})
    /\ [][ReopensDue => IsSetDues]_vars
    /\ [][(financeStore'.dues # financeStore.dues /\ ~IsSetDues) =>
             financeStore'.dues = <<>>]_vars

C12_Witness ==
    /\ lastDuesChange.change = "clear"
    /\ financeStore.dues # <<>>
    /\ financeStore.dues[1].status = "cleared"
    /\ financeStore.commissions # <<>>
    /\ financeStore.commissions[1].eventId = financeStore.dues[1].eventId
    /\ financeStore.commissions[1].status = "pending"
    /\ financeStore.summary # NullObject

FinanceFields ==
    {"summary", "transactions", "dues", "commissions", "withdrawals",
     "isLoading", "error"}

\* The step changes no field of the finance store but `field`.
OnlyField(field) ==
    /\ DOMAIN financeStore' = FinanceFields
    /\ \A g \in FinanceFields \ {field} : financeStore'[g] = financeStore[g]

\* C15: each of setSummary, setTransactions, setDues, setCommissions,
\* setWithdrawals, setLoading and setError replaces exactly its own field
\* with the value given and leaves every other field of the store
\* unchanged, and reset restores summary = null, the four arrays empty,
\* isLoading = false and error = null.
C15_SettersReplaceOwnField ==
    [][/\ \A v \in Summaries : Finance_setSummary(v) =>
             (financeStore'.summary = v /\ OnlyField("summary"))
       /\ \A v \in TransactionArrays : Finance_setTransactions(v) =>
             (financeStore'.transactions = v /\ OnlyField("transactions"))
       /\ \A v \in StoreDueArrays : Finance_setDues(v) =>
             (financeStore'.dues = v /\ OnlyField("dues"))
       /\ \A v \in StoreCommissionArrays : Finance_setCommissions(v) =>
             (financeStore'.commissions = v /\ OnlyField("commissions"))
       /\ \A v \in WithdrawalArrays : Finance_setWithdrawals(v) =>
             (financeStore'.withdrawals = v /\ OnlyField("withdrawals"))
       /\ \A v \in BOOLEAN : Finance_setLoading(v) =>
             (financeStore'.isLoading = v /\ OnlyField("isLoading"))
       /\ \A v \in Errors : Finance_setError(v) =>
             (financeStore'.error = v /\ OnlyField("error"))
       /\ Finance_reset =>
             /\ DOMAIN financeStore' = FinanceFields
             /\ financeStore'.summary = NullObject
             /\ financeStore'.transactions = <<>>
             /\ financeStore'.dues = <<>>
             /\ financeStore'.commissions = <<>>
             /\ financeStore'.withdrawals = <<>>
             /\ financeStore'.isLoading = FALSE
             /\ financeStore'.error = Null]_vars

C15_Witness ==
    /\ financeStore.summary # NullObject
    /\ financeStore.transactions # <<>>
    /\ financeStore.dues # <<>>
    /\ financeStore.commissions # <<>>
    /\ financeStore.withdrawals # <<>>
    /\ financeStore.isLoading
    /\ financeStore.error # Null

-----------------------------------------------------------------------------
(* Properties of the dues and the commission record of one event           *)
(* (SpecCommission).                                                       *)

ClearedOf(dues, e) ==
    Cardinality({i \in DOMAIN dues :
                    dues[i].eventId = e /\ dues[i].status = "cleared"})

\* A step that clears a pending due of the event of the store's commission
\* record, which is 'pending', and leaves `cleared` dues of the event
\* cleared.
ClearsDueOfRecord(cleared) ==
    /\ ClearsDue
    /\ financeStore.commissions # <<>>
    /\ financeStore'.commissions # <<>>
    /\ financeStore.commissions[1].status = "pending"
    /\ ClearedOf(financeStore.dues, financeStore.commissions[1].eventId) < cleared
    /\ ClearedOf(financeStore'.dues, financeStore.commissions[1].eventId) = cleared

RecordFollowsConstants ==
    \A j \in DOMAIN financeStore.commissions :
        LET c == financeStore.commissions[j]
        IN  /\ c.grossAmount = c.participantsDuesCleared * Rupees(DUE_AMOUNT)
            /\ CommissionAmount(c) * 100 = c.grossAmount * COMMISSION_RATE
            /\ (c.participantsDuesCleared = 3 =>
                   (c.grossAmount = Rupees(75) /\ CommissionAmount(c) = Rupees(60)))

-----------------------------------------------------------------------------
(* Properties of the withdrawals and the summary (SpecPayout).             *)

LegalMove(from, to) ==
    \/ from = to
    \/ <<from, to>> \in {<<"pending", "processing">>,
                         <<"processing", "completed">>,
                         <<"processing", "failed">>}

IsSetWithdrawals == \E w \in PayoutWithdrawalArrays : Finance_setWithdrawals(w)

\* C13 as stated: every WithdrawalRecord follows pending -> processing ->
\* completed|failed; 'completed' and 'failed' are terminal, and no record
\* moves from 'failed' back to 'pending' or from a terminal status to any
\* other status.
C13_WithdrawalLifecycle_Original ==
    [][\A i \in DOMAIN financeStore.withdrawals :
         \A j \in DOMAIN financeStore'.withdrawals :
            financeStore.withdrawals[i].id = financeStore'.withdrawals[j].id =>
               LegalMove(financeStore.withdrawals[i].status,
                         financeStore'.withdrawals[j].status)]_vars

\* C13 as amended: every WithdrawalRecord is 'pending', 'processing',
\* 'completed' or 'failed', and only setWithdrawals changes a record: it
\* stores the array it is given, so a 'failed' or 'completed' record is
\* 'pending' again when the array given says so; no other operation moves
\* a record (reset removes the withdrawals).
C13_OnlySetWithdrawalsMoves ==
    /\ [](\A i \in DOMAIN financeStore.withdrawals :
             financeStore.withdrawals[i].status \in WithdrawalStatuses)
    /\ [][(financeStore'.withdrawals # financeStore.withdrawals /\ ~IsSetWithdrawals) =>
             financeStore'.withdrawals = <<>>]_vars

C13_Witness ==
    /\ Len(financeStore.withdrawals) = 2
    /\ financeStore.withdrawals[1].status = "failed"
    /\ financeStore.withdrawals[2].status = "processing"
    /\ financeStore.error # Null
    /\ financeStore.summary # NullObject

FlagAgrees(summary) ==
    summary.canWithdraw <=>
        (summary.availableCommission >= summary.minWithdrawalAmount)

\* C14 as stated: whenever the finance store holds a FinanceSummary, its
\* canWithdraw flag is true exactly when availableCommission >=
\* minWithdrawalAmount; no sequence of store operations leaves the flag
\* disagreeing with the two amounts.
C14_FlagAgrees_Original ==
    financeStore.summary # NullObject => FlagAgrees(financeStore.summary)

\* C14 as amended: the store holds the FinanceSummary that setSummary was
\* given, its canWithdraw flag included: the flag agrees with the two
\* amounts exactly when it did in the summary given, and no other store
\* operation changes the flag or the amounts (reset drops the summary).
C14_FlagAsGiven ==
    /\ [][\A s \in PayoutSummaries :
             Finance_setSummary(s) =>
                /\ financeStore'.summary.canWithdraw = s.canWithdraw
                /\ financeStore'.summary.availableCommission = s.availableCommission
                /\ financeStore'.summary.minWithdrawalAmount = s.minWithdrawalAmount
                /\ (FlagAgrees(financeStore'.summary) <=> FlagAgrees(s))]_vars
    /\ [][(financeStore'.summary # financeStore.summary
              /\ ~\E s \in PayoutSummaries : Finance_setSummary(s)) =>
             financeStore'.summary = NullObject]_vars

C14_Witness ==
    /\ financeStore.summary # NullObject
    /\ financeStore.summary.canWithdraw
    /\ financeStore.summary.availableCommission = Rupees(999)
    /\ financeStore.withdrawals # <<>>
    /\ financeStore.error # Null

\* The withdrawals the store holds as accepted (not 'failed'): their
\* number and the sum of their amounts.
AcceptedCount(withdrawals) ==
    Cardinality({i \in DOMAIN withdrawals : withdrawals[i].status # "failed"})

RECURSIVE SumAccepted(_)
SumAccepted(withdrawals) ==
    IF withdrawals = <<>> THEN 0
    ELSE (IF Head(withdrawals).status = "failed" THEN 0
          ELSE Head(withdrawals).amount)
         + SumAccepted(Tail(withdrawals))

-----------------------------------------------------------------------------
(* Properties of the notification store (SpecNotification).                *)

Unread(notifications) ==
    Cardinality({i \in DOMAIN notifications : ~notifications[i].isRead})

\* C22: after any sequence of notification-store operations, unreadCount
\* equals the number of stored notifications whose isRead is false, also
\* when ids are duplicated or the id given is absent.
C22_UnreadCountIsCount ==
    notificationStore.unreadCount = Unread(notificationStore.notifications)

\* Three notifications, two of them with the one id and both read, the
\* third unread, with the loading flag and an error set.
C22_Witness ==
    LET ns == notificationStore.notifications
    IN  /\ Len(ns) = 3
        /\ \E i, j, k \in DOMAIN ns :
              /\ i # j /\ ns[i].id = ns[j].id /\ ns[k].id # ns[i].id
              /\ ns[i].isRead /\ ns[j].isRead /\ ~ns[k].isRead
        /\ notificationStore.unreadCount = 1
        /\ notificationStore.isLoading
        /\ notificationStore.error # Null

-----------------------------------------------------------------------------
(* Properties of the auth store (SpecAuth).                                *)

\* C23: after any sequence of auth-store operations isAuthenticated is
\* true exactly when user is not null; updateKYCStatus changes nothing
\* when user is null and otherwise changes only user.kyc.status; logout
\* clears user and token and leaves isOnboardingComplete as it was.
C23_AuthStore ==
    /\ [](authStore.isAuthenticated <=> authStore.user # NullObject)
    /\ [][/\ \A st \in KYCStatuses :
               Auth_updateKYCStatus(st) =>
                  IF authStore.user = NullObject
                  THEN authStore' = authStore
                  ELSE /\ authStore'.user.kyc.status = st
                       /\ [authStore' EXCEPT !.user.kyc.status =
                                                authStore.user.kyc.status]
                             = authStore
          /\ Auth_logout =>
               /\ authStore'.user = NullObject
               /\ authStore'.token = Null
               /\ ~authStore'.isAuthenticated
               /\ authStore'.isOnboardingComplete
                     = authStore.isOnboardingComplete
               /\ authStore'.isLoading = authStore.isLoading]_vars

\* A signed-in user whose status updateKYCStatus has made 'verified',
\* with a token and the onboarding complete.
C23_Witness ==
    /\ authStore.user # NullObject
    /\ authStore.user.kyc.status = "verified"
    /\ authStore.isAuthenticated
    /\ authStore.token # Null
    /\ authStore.isOnboardingComplete

-----------------------------------------------------------------------------
(* Properties of OTPScreen (SpecOtp).                                      *)

IsCell(cell) == Len(cell) <= 1 /\ IsDigits(cell)

IsCode(otpValue) == Len(otpValue) = OTP_LENGTH /\ IsDigits(otpValue)

\* C25: after any sequence of OTP input events (a digit, a paste, a
\* backspace, a resend) the otp array has exactly 6 cells, each empty or
\* one decimal digit, and activeIndex is within 0..5; a verification is
\* only ever started with a string of exactly 6 digits.
C25_OtpWellFormed ==
    /\ DOMAIN otpScreen.otp = 0..5
    /\ \A i \in DOMAIN otpScreen.otp : IsCell(otpScreen.otp[i])
    /\ otpScreen.activeIndex \in 0..5
    /\ \A k \in DOMAIN otpTimers : IsCode(otpTimers[k])

\* A verification is pending after a backspace has emptied the fifth cell.
C25_Witness ==
    /\ otpTimers # <<>>
    /\ otpScreen.isLoading
    /\ otpScreen.activeIndex = 4
    /\ otpScreen.otp[4] = <<>>
    /\ otpScreen.otp[5] = <<>>
    /\ Len(Join(otpScreen.otp)) = 4

AllCellsEmpty(otp) == \A i \in DOMAIN otp : otp[i] = <<>>

\* The step is the one handleResend makes when the countdown is at 0.
Resent ==
    /\ otpScreen.resendTimer = 0
    /\ otpScreen'.resendTimer = 30
    /\ AllCellsEmpty(otpScreen'.otp)
    /\ otpScreen'.error = ""
    /\ otpScreen'.activeIndex = 0
    /\ otpScreen'.isLoading = otpScreen.isLoading
    /\ otpCalled' = <<"onResend">>
    /\ otpTimers' = otpTimers

\* C26: the resend countdown starts at 30, decreases by exactly 1 per
\* tick, stops at 0 and is never negative; handleResend has no effect
\* while the countdown is above 0, and at 0 it resets the countdown to 30,
\* clears the six cells and the error, sets activeIndex to 0 and calls
\* onResend exactly once.
C26_ResendCountdown ==
    /\ otpScreen.resendTimer = 30
    /\ [](otpScreen.resendTimer \in 0..30)
    /\ [][/\ otpScreen'.resendTimer # otpScreen.resendTimer =>
               \/ otpScreen'.resendTimer = otpScreen.resendTimer - 1
               \/ Resent
          /\ OtpScreen_resendTick =>
               otpScreen' = [otpScreen EXCEPT !.resendTimer = @ - 1]
          /\ otpScreen.resendTimer = 0 => ~ENABLED OtpScreen_resendTick
          /\ OtpScreen_handleResend =>
               IF otpScreen.resendTimer > 0
               THEN /\ otpScreen' = otpScreen
                    /\ otpTimers' = otpTimers
                    /\ otpCalled' = <<>>
               ELSE Resent]_vars

\* handleResend has run at 0, on a screen that showed the error of a
\* failed verification.
C26_Witness ==
    /\ otpCalled = <<"onResend">>
    /\ otpScreen.resendTimer = 30
    /\ AllCellsEmpty(otpScreen.otp)
    /\ otpScreen.error = ""
    /\ otpScreen.activeIndex = 0
    /\ otpScreen.isLoading

-----------------------------------------------------------------------------
(* Properties of the create-event form (SpecForm).                         *)

NoGenderTwice(list) ==
    \A i, j \in DOMAIN list : list[i] = list[j] => i = j

\* C28: after any sequence of toggleGender calls genderAllowed is never
\* empty and holds no gender twice: toggling the only remaining gender
\* leaves the list as it is, toggling another present gender removes it,
\* and toggling an absent one adds it.
C28_GenderAllowed ==
    /\ [](/\ formData.genderAllowed # <<>>
          /\ NoGenderTwice(formData.genderAllowed))
    /\ [][\A g \in Genders :
            Form_toggleGender(g) =>
               LET current == formData.genderAllowed
                   next == formData'.genderAllowed
                   has(list, x) == \E i \in DOMAIN list : list[i] = x
               IN  /\ next # <<>>
                   /\ NoGenderTwice(next)
                   /\ IF has(current, g)
                      THEN IF Len(current) = 1
                           THEN next = current
                           ELSE /\ ~has(next, g)
                                /\ Len(next) = Len(current) - 1
                                /\ \A x \in Genders \ {g} :
                                      has(next, x) <=> has(current, x)
                      ELSE /\ has(next, g)
                           /\ Len(next) = Len(current) + 1
                           /\ \A x \in Genders \ {g} :
                                 has(next, x) <=> has(current, x)]_vars

\* One gender is left, after the others were toggled off and rules added.
C28_Witness ==
    /\ formData.genderAllowed = <<"other">>
    /\ ~formData.requiresApproval
    /\ Len(formData.rules) = 2

-----------------------------------------------------------------------------
(* Properties of App and its screens (SpecApp).                            *)

\* C17: KYC verification is a precondition for creating events: App's
\* currentScreen is 'createEvent' only in states where the signed-in
\* user's kyc.status is 'verified'.
C17_CreateEventOnlyVerified ==
    app.currentScreen = "createEvent" =>
        /\ authStore.user # NullObject
        /\ authStore.user.kyc.status = "verified"

\* The screens App renders for a signed-in user.
PostLoginScreens ==
    {"main", "eventDetail", "createEvent", "settings", "notifications",
     "wallet", "friends", "chat"}

\* C21: a post-login screen is shown only while the auth store is
\* authenticated (user is not null), in every interleaving of the user's
\* actions with the pending timers; after Settings -> Logout no pending
\* callback brings the App back to 'main'.
C21_PostLoginOnlyAuthenticated ==
    app.currentScreen \in PostLoginScreens =>
        /\ authStore.isAuthenticated
        /\ authStore.user # NullObject

\* The simulated API calls and the prop each calls on success.
ApiKinds == {"login", "signup", "verify", "submit", "join"}

SuccessProp(kind) ==
    CASE kind = "login" -> "onLogin"
      [] kind = "signup" -> "onSignup"
      [] kind = "verify" -> "onVerify"
      [] kind = "submit" -> "onCreate"
      [] kind = "join" -> "onJoin"

\* The step runs the callback of the pending timer t of an API call.
Ends(t) ==
    /\ t.kind \in ApiKinds
    /\ \A k \in DOMAIN timers' : timers'[k].id # t.id

PendingCalls == {timers[j] : j \in {k \in DOMAIN timers : timers[k].kind \in ApiKinds}}

\* C18: the only simulated failure is the OTP sentinel: a verification
\* started with '000000' ends with the error 'Invalid OTP. Please try
\* again.' set and onVerify not called; a verification started with any
\* other code ends with onVerify called with that code and no error set by
\* it; in both cases isLoading is false afterwards.  (The setters of a
\* verification whose screen was left act on no component: the state of
\* the screen shown then is left as it is.)
C18_OnlySentinelFails ==
    [][\A t \in PendingCalls :
         Ends(t) =>
            IF t.kind = "verify" /\ t.arg = "000000"
            THEN /\ lastCallback' = [name |-> "none", arg |-> t.arg, id |-> t.id]
                 /\ app' = app
                 /\ IF t.stale THEN screens' = screens
                    ELSE /\ ~screens'.otp.isLoading
                         /\ screens'.otp.error = "Invalid OTP. Please try again."
            ELSE /\ lastCallback' =
                        [name |-> SuccessProp(t.kind), arg |-> t.arg, id |-> t.id]
                 /\ t.kind = "verify" =>
                        /\ app'.currentScreen = "citySelection"
                        /\ ~screens'.otp.isLoading
                        /\ screens'.otp.error \in {"", screens.otp.error}]_vars

C18_Witness ==
    /\ app.currentScreen = "otp"
    /\ lastCallback.name = "none"
    /\ lastCallback.arg = "000000"
    /\ lastCallback.id > 0
    /\ screens.otp.error = "Invalid OTP. Please try again."
    /\ ~screens.otp.isLoading
    /\ timers # <<>>

\* The verifications the OTP screen shown has started and not yet ended.
InFlight == {t \in PendingCalls : t.kind = "verify" /\ ~t.stale}

\* C24: on the OTP screen at most one verification is in flight at a time:
\* while isLoading is true no further handleVerify starts, from the Verify
\* button or from the auto-submit of the last digit.
C24_OneVerificationInFlight == Cardinality(InFlight) <= 1

Pending(id) == \E t \in PendingCalls : t.id = id

\* The loading flag of the screen of a call of this kind.
LoadingFlag(kind, sc) ==
    CASE kind = "login" -> sc.login.isLoading
      [] kind = "signup" -> sc.signup.isLoading
      [] kind = "verify" -> sc.otp.isLoading
      [] kind = "submit" -> sc.createEvent.isSubmitting
      [] kind = "join" -> sc.eventDetail.isJoining

\* C19: every simulated API call that has been started (login, signup,
\* OTP verification, create-event submit, event join) eventually
\* resolves: no call stays pending forever, and when it resolves its
\* loading flag is false and, except for OTP code '000000', its success
\* callback is called.  The flag is state of the screen that started
\* the call; once that screen is left the flag no longer exists.
C19_EveryCallResolves ==
    /\ \A id \in 1..MaxFairCalls : Pending(id) ~> (id <= started /\ ~Pending(id))
    /\ [][\A t \in PendingCalls :
             Ends(t) =>
                /\ ~t.stale => ~LoadingFlag(t.kind, screens')
                /\ lastCallback'.id = t.id
                /\ (t.kind = "verify" /\ t.arg = "000000")
                      \/ lastCallback'.name = SuccessProp(t.kind)]_vars

C19_Witness ==
    /\ app.currentScreen = "eventDetail"
    /\ lastCallback.name = "onJoin"
    /\ lastCallback.id = started
    /\ started >= 2
    /\ ~screens.eventDetail.isJoining
    /\ PendingCalls = {}

\* The screen App shows when the callback of a call of this kind has run.
ScreenAfter(kind) ==
    CASE kind = "login" -> "otp"
      [] kind = "verify" -> "citySelection"
      [] kind = "submit" -> "main"

LeavesScreen == app'.currentScreen # app.currentScreen

CountKind(ts, kind) == Cardinality({j \in DOMAIN ts : ts[j].kind = kind})

\* The timers of an API call are never cleared, and the timers of the
\* splash screen and of the resend countdown do not outlive their screen.
OnlyEffectTimersCleared ==
    /\ \A t \in PendingCalls : Ends(t) => lastCallback'.id = t.id
    /\ LeavesScreen =>
          /\ \A t \in PendingCalls :
                Ends(t) \/ \E k \in DOMAIN timers' :
                               timers'[k] = [t EXCEPT !.stale = TRUE]
          /\ CountKind(timers', "splash") = 0
          /\ CountKind(timers', "resend") =
                 IF app'.currentScreen = "otp" THEN 1 ELSE 0

\* C20 as stated: the callback of a login, OTP verification or submit
\* whose screen has been left still sets currentScreen to 'otp',
\* 'citySelection' or 'main', whatever the code entered.
C20_NoCancellation_Original ==
    [][/\ OnlyEffectTimersCleared
       /\ \A t \in PendingCalls :
             (t.stale /\ Ends(t) /\ t.kind \in {"login", "verify", "submit"})
                => app'.currentScreen = ScreenAfter(t.kind)]_vars

\* C20: simulated API calls have no cancellation: leaving the screen of a
\* started login, OTP verification or create-event submit leaves its timer
\* pending, and the callback still runs and sets currentScreen to 'otp',
\* 'citySelection' or 'main'; the callback of a verification of '000000'
\* runs as well but changes nothing.  Only the splash timer and the resend
\* countdown are cleared on unmount.
C20_NoCancellation ==
    [][/\ OnlyEffectTimersCleared
       /\ \A t \in PendingCalls :
             (t.stale /\ Ends(t) /\ t.kind \in {"login", "verify", "submit"})
                => IF t.kind = "verify" /\ t.arg = "000000"
                   THEN app' = app /\ screens' = screens
                   ELSE app'.currentScreen = ScreenAfter(t.kind)]_vars

\* onLogin has run after the login screen was left for the signup screen,
\* where the signup that is still pending was started.
C20_Witness ==
    /\ app.currentScreen = "otp"
    /\ lastCallback.name = "onLogin"
    /\ CountKind(timers, "resend") = 1
    /\ \E t \in PendingCalls :
          t.kind = "signup" /\ t.stale /\ t.id > lastCallback.id

\* The submits the create-event screen shown has started and not ended.
Submitting == {t \in PendingCalls : t.kind = "submit" /\ ~t.stale}

\* The step starts a submit.
StartsSubmit ==
    \E k \in DOMAIN timers' :
        timers'[k].kind = "submit" /\ timers'[k].id > started

\* C27: in the create-event wizard currentStep is always within 0..3;
\* Continue raises it by exactly one and does nothing at step 3, Back
\* lowers it by one and calls onBack only at step 0, and handleSubmit
\* (hence onCreate) is triggered only while currentStep is 3 and at most
\* once per submit: the footer button is disabled while isSubmitting.
C27_Wizard ==
    /\ [](/\ screens.createEvent.currentStep \in 0..3
          /\ Cardinality(Submitting) =
                IF screens.createEvent.isSubmitting THEN 1 ELSE 0)
    /\ [][/\ CreateEvent_handleNext =>
               /\ screens'.createEvent.currentStep
                     = screens.createEvent.currentStep + 1
               /\ app' = app /\ timers' = timers
          /\ screens.createEvent.currentStep = 3 =>
               ~ENABLED CreateEvent_handleNext
          /\ CreateEvent_handlePrevious =>
               IF screens.createEvent.currentStep > 0
               THEN /\ screens'.createEvent.currentStep
                          = screens.createEvent.currentStep - 1
                    /\ app' = app /\ timers' = timers
               ELSE app'.currentScreen = "main"
          /\ StartsSubmit =>
               /\ app.currentScreen = "createEvent"
               /\ screens.createEvent.currentStep = 3
               /\ ~screens.createEvent.isSubmitting
               /\ started' = started + 1
          /\ lastCallback'.name = "onCreate" /\ lastCallback' # lastCallback =>
               \E t \in PendingCalls :
                   t.kind = "submit" /\ Ends(t) /\ lastCallback'.id = t.id]_vars

\* The wizard has been stepped back to its third step while its submit
\* is pending.
C27_Witness ==
    /\ app.currentScreen = "createEvent"
    /\ screens.createEvent.currentStep = 2
    /\ screens.createEvent.isSubmitting
    /\ Cardinality(Submitting) = 1

-----------------------------------------------------------------------------
(* Properties of the wallet screen (SpecWallet).                           *)

\* C8: with an available balance below the 1000-unit minimum the withdraw
\* action can never fire, with a balance of exactly 1000 (or more) it can,
\* and the threshold the screen compares against is MIN_WITHDRAWAL_AMOUNT.
C8_WithdrawOnlyFromMinimum ==
    /\ walletScreen.wallet.minWithdrawal = Rupees(MIN_WITHDRAWAL_AMOUNT)
    /\ walletScreen.onWithdrawCalled =>
          walletScreen.wallet.availableBalance >= Rupees(MIN_WITHDRAWAL_AMOUNT)
    /\ walletScreen.wallet.availableBalance < Rupees(MIN_WITHDRAWAL_AMOUNT) =>
          ~ENABLED Wallet_pressWithdraw
    /\ (/\ walletScreen.mounted
        /\ walletScreen.wallet.availableBalance >= Rupees(MIN_WITHDRAWAL_AMOUNT)) =>
          ENABLED Wallet_pressWithdraw

C8_Witness ==
    /\ walletScreen.mounted
    /\ walletScreen.wallet.availableBalance = Rupees(1000)
    /\ walletScreen.onWithdrawCalled

=============================================================================
